---- MODULE Spec2Model ----
(***************************************************************************)
(* Document ingestion pipeline of securedocai: the process-document edge   *)
(* function (trigger handler + detached background job), the              *)
(* cleanup-stuck-documents sweeper, and the client hook useSources         *)
(* (upload trigger, reprocessSource, fetchSources).                        *)
(*                                                                         *)
(* Text is a sequence of one-character strings.  Time is milliseconds.     *)
(***************************************************************************)
EXTENDS Integers, Sequences, FiniteSets, TLC

VARIABLES
    now,            \* Date.now(), in ms
    sources,        \* table public.sources: document id -> row
    source_chunks,  \* table public.source_chunks: set of rows (id is the primary key)
    storage,        \* bucket "documents": document id -> decoded file text
    aiTexts,        \* the texts the AI gateway may answer with
    jobs,           \* invocations of process-document: handler + background job
    sweeps,         \* invocations of cleanup-stuck-documents
    clicked,        \* reprocessSource calls between their reset and their invoke
    picked,         \* uploadFiles: the files of the FileList not yet looped over
    calls,          \* an application of fetchWithRetry or of the chunker: input and results
    ai_usage_logs   \* table public.ai_usage_logs: the rows in the order of their insertion

vars == <<now, sources, source_chunks, storage, aiTexts, jobs, sweeps, clicked, picked, calls,
          ai_usage_logs>>

----------------------------------------------------------------------------
(* Bounds of the model *)

MaxJobs == 2        \* invocations of process-document in one behaviour
MaxSweeps == 1      \* invocations of cleanup-stuck-documents in one behaviour
MaxTicks == 2       \* the clock stops after MaxTicks ticks
TickMs == 450000    \* one tick of the clock (7.5 minutes)

JobIds == 1..MaxJobs
SweepIds == 1..MaxSweeps
DocIds == {"d1", "d2"}

----------------------------------------------------------------------------
(* Program constants *)

STUCK_THRESHOLD_MINUTES == 10
CHUNK_SIZE_TOKENS == 500
CHUNK_OVERLAP_TOKENS == 100
CHARS_PER_TOKEN == 4
PAGES_PER_BATCH == 5
ESTIMATED_CHARS_PER_PAGE == 3000

NULL == "NULL"      \* SQL NULL / JS null in a text column
NullInt == -1       \* NULL in a timestamp or integer column
NoText == << >>     \* "", null or undefined text

----------------------------------------------------------------------------
(* Characters and the JavaScript string functions the pipeline uses *)

UpperSeq == <<"A", "B", "C", "D", "E", "F", "G", "H", "I", "J", "K", "L", "M", "N", "O", "P", "Q", "R", "S", "T", "U", "V", "W", "X", "Y", "Z">>
LowerSeq == <<"a", "b", "c", "d", "e", "f", "g", "h", "i", "j", "k", "l", "m", "n", "o", "p", "q", "r", "s", "t", "u", "v", "w", "x", "y", "z">>
DigitSeq == <<"0", "1", "2", "3", "4", "5", "6", "7", "8", "9">>
UpperSet == {UpperSeq[i] : i \in 1..26}
LowerSet == {LowerSeq[i] : i \in 1..26}
DigitSet == {DigitSeq[i] : i \in 1..10}

\* regex class \s and the characters String.prototype.trim removes
IsSpace(c) == c \in {" ", "\n", "\t", "\r", "\f"}
\* regex class \w
IsWord(c) == c \in UpperSet \cup LowerSet \cup DigitSet \cup {"_"}
\* String.prototype.toLowerCase / toUpperCase on one character
toLowerCase(c) == IF c \in UpperSet THEN LowerSeq[CHOOSE i \in 1..26 : UpperSeq[i] = c] ELSE c
toUpperCase(c) == IF c \in LowerSet THEN UpperSeq[CHOOSE i \in 1..26 : LowerSeq[i] = c] ELSE c

Min(S) == CHOOSE x \in S : \A y \in S : x <= y
Max(S) == CHOOSE x \in S : \A y \in S : x >= y

\* String.prototype.trim
trim(s) ==
    IF \A i \in 1..Len(s) : IsSpace(s[i]) THEN << >>
    ELSE LET first == CHOOSE i \in 1..Len(s) :
                          ~IsSpace(s[i]) /\ \A j \in 1..(i - 1) : IsSpace(s[j])
             last == CHOOSE i \in 1..Len(s) :
                          ~IsSpace(s[i]) /\ \A j \in (i + 1)..Len(s) : IsSpace(s[j])
         IN SubSeq(s, first, last)

\* variant: the first n characters instead of the last n
sliceLast_head(s, n) == IF Len(s) <= n THEN s ELSE SubSeq(s, 1, n)

\* s.slice(-n), n > 0
sliceLast(s, n) == IF Len(s) <= n THEN s ELSE SubSeq(s, Len(s) - n + 1, Len(s))

\* s.substring(0, n)
substring0(s, n) == IF Len(s) <= n THEN s ELSE SubSeq(s, 1, n)

\* Number.prototype.toString of a non-negative integer, as characters
RECURSIVE numberChars(_)
numberChars(n) ==
    IF n < 10 THEN <<DigitSeq[n + 1]>>
    ELSE numberChars(n \div 10) \o <<DigitSeq[(n % 10) + 1]>>

\* parseInt(d, 10) of a sequence of digits
RECURSIVE parseInt(_)
parseInt(d) ==
    IF d = << >> THEN 0
    ELSE 10 * parseInt(SubSeq(d, 1, Len(d) - 1))
         + ((CHOOSE i \in 1..10 : DigitSeq[i] = d[Len(d)]) - 1)

\* Array.prototype.join("\n\n")
RECURSIVE joinBlankLine(_)
joinBlankLine(parts) ==
    IF parts = << >> THEN << >>
    ELSE IF Len(parts) = 1 THEN parts[1]
    ELSE parts[1] \o <<"\n", "\n">> \o joinBlankLine(Tail(parts))

\* s.indexOf-style test: the literal pat occurs in s at position i
LiteralAt(s, pat, i) ==
    /\ i >= 1
    /\ i + Len(pat) - 1 <= Len(s)
    /\ \A k \in 1..Len(pat) : s[i + k - 1] = pat[k]

\* The positions a global regex finds, left to right and not overlapping,
\* among the candidate positions M of matches of length L.
RECURSIVE Leftmost(_, _, _)
Leftmost(M, L, from) ==
    LET later == {i \in M : i >= from}
    IN IF later = {} THEN << >>
       ELSE LET i == Min(later) IN <<i>> \o Leftmost(M, L, i + L)

\* s.replace(/pat/g, rep) given the match positions ms (ascending) of length L
RECURSIVE replaceAt(_, _, _, _, _)
replaceAt(s, ms, L, rep, from) ==
    IF ms = << >> THEN SubSeq(s, from, Len(s))
    ELSE SubSeq(s, from, ms[1] - 1) \o rep \o replaceAt(s, Tail(ms), L, rep, ms[1] + L)

\* s.replace(/pat/g, rep) for a literal pattern
replaceLiteral(s, pat, rep) ==
    LET M == {i \in 1..Len(s) : s[i] = pat[1] /\ LiteralAt(s, pat, i)}
    IN IF M = {} THEN s
       ELSE replaceAt(s, Leftmost(M, Len(pat), 1), Len(pat), rep, 1)

----------------------------------------------------------------------------
(* Chunker: splitIntoSentences and splitIntoSmartChunks *)

abbreviations == <<<<"m", "r">>,
    <<"m", "r", "s">>,
    <<"m", "s">>,
    <<"d", "r">>,
    <<"p", "r", "o", "f">>,
    <<"s", "r">>,
    <<"j", "r">>,
    <<"v", "s">>,
    <<"e", "t", "c">>,
    <<"i", "n", "c">>,
    <<"l", "t", "d">>,
    <<"c", "o">>,
    <<"c", "o", "r", "p">>,
    <<"s", "t">>,
    <<"a", "v", "e">>,
    <<"b", "l", "v", "d">>,
    <<"e", ".", "g">>,
    <<"i", ".", "e">>,
    <<"f", "i", "g">>,
    <<"v", "o", "l">>,
    <<"n", "o">>,
    <<"p", "p">>>>

DOT == <<"<", "<", "D", "O", "T", ">", ">">>
PAGE_MARKER == <<"<", "<", "P", "A", "G", "E", "_", "M", "A", "R", "K", "E", "R", ">", ">">>
PDF_PAGE == <<"=", "=", "=", " ", "P", "D", "F", " ", "P", "A", "G", "E">>

\* new RegExp(`\\b${abbr}\\.`, 'gi') matches at position i of s: a word
\* boundary, the abbreviation without regard to case (a "." inside the
\* abbreviation is the regex wildcard), then a literal ".".
abbrRegexAt(s, abbr, i) ==
    /\ i >= 1
    /\ i + Len(abbr) <= Len(s)
    /\ s[i + Len(abbr)] = "."
    /\ \A k \in 1..Len(abbr) :
          IF abbr[k] = "." THEN s[i + k - 1] \notin {"\n", "\r"}
          ELSE toLowerCase(s[i + k - 1]) = abbr[k]
    /\ (i = 1 \/ ~IsWord(s[i - 1]))
    /\ IsWord(s[i])

\* processedText.replace(regex, `${abbr}<<DOT>>`)
maskAbbreviation(s, abbr) ==
    LET dots == {d \in 1..Len(s) : s[d] = "."}
        M == {d - Len(abbr) : d \in {e \in dots : abbrRegexAt(s, abbr, e - Len(abbr))}}
    IN IF M = {} THEN s
       ELSE replaceAt(s, Leftmost(M, Len(abbr) + 1, 1), Len(abbr) + 1, abbr \o DOT, 1)

\* the for-loop over the abbreviations, in list order
RECURSIVE maskAbbreviations(_, _)
maskAbbreviations(s, k) ==
    IF k > Len(abbreviations) THEN s
    ELSE LET masked == maskAbbreviation(s, abbreviations[k])
         IN IF Len(masked) >= 0 THEN maskAbbreviations(masked, k + 1) ELSE masked

\* the end of the whitespace run that starts at p
spaceRunEnd(s, p) ==
    CHOOSE q \in p..Len(s) :
        /\ \A j \in p..q : IsSpace(s[j])
        /\ (q = Len(s) \/ ~IsSpace(s[q + 1]))

\* /(?<=[.!?])\s+(?=[A-Z])|(?<=[.!?])\s*\n+/g : the matches <<start, end>>.
\* A match starts at a whitespace run that follows ".", "!" or "?"; it is the
\* whole run when an upper-case letter follows, else the run up to its last
\* newline when it has one.
sentenceBreaks(s) ==
    LET starts == {p \in 2..Len(s) : s[p - 1] \in {".", "!", "?"} /\ IsSpace(s[p])}
        brk(p) == LET q == spaceRunEnd(s, p)
                  IN IF q < Len(s) /\ s[q + 1] \in UpperSet THEN <<p, q>>
                     ELSE IF \E j \in p..q : s[j] = "\n"
                          THEN <<p, Max({j \in p..q : s[j] = "\n"})>>
                          ELSE <<p, p - 1>>
    IN {brk(p) : p \in starts} \ {<<p, p - 1>> : p \in starts}

\* String.prototype.split on the breaks, from position from on
RECURSIVE splitAt(_, _, _)
splitAt(s, breaks, from) ==
    LET later == {b \in breaks : b[1] >= from}
    IN IF later = {} THEN <<SubSeq(s, from, Len(s))>>
       ELSE LET b == CHOOSE x \in later : \A y \in later : x[1] <= y[1]
            IN <<SubSeq(s, from, b[1] - 1)>> \o splitAt(s, breaks, b[2] + 1)

\* sentences.map(s => s.replace(/<<DOT>>/g, '.').replace(/<<PAGE_MARKER>>/g, '=== PDF PAGE'))
RECURSIVE restoreAll(_)
restoreAll(sentences) ==
    IF sentences = << >> THEN << >>
    ELSE <<replaceLiteral(replaceLiteral(sentences[1], DOT, <<".">>), PAGE_MARKER, PDF_PAGE)>>
         \o restoreAll(Tail(sentences))

splitIntoSentences(text) ==
    LET masked == maskAbbreviations(text, 1)
        processedText == replaceLiteral(masked, PDF_PAGE, PAGE_MARKER)
    IN restoreAll(splitAt(processedText, sentenceBreaks(processedText), 1))

targetChunkSize == CHUNK_SIZE_TOKENS * CHARS_PER_TOKEN
overlapSize == CHUNK_OVERLAP_TOKENS * CHARS_PER_TOKEN
MIN_CHUNK_LENGTH == 50

\* one iteration of the for-loop of splitIntoSmartChunks over a sentence;
\* st = [chunks, currentChunk, overlapBuffer]
chunkStep(st, sentence) ==
    LET trimmedSentence == trim(sentence)
        closes == Len(st.currentChunk) + Len(trimmedSentence) > targetChunkSize
                  /\ Len(st.currentChunk) > 0
        combinedForOverlap == st.overlapBuffer \o <<" ">> \o trimmedSentence
    IN IF trimmedSentence = << >> THEN st
       ELSE [chunks |-> IF closes THEN Append(st.chunks, trim(st.currentChunk))
                        ELSE st.chunks,
             currentChunk |->
                 IF closes THEN st.overlapBuffer \o <<" ">> \o trimmedSentence
                 ELSE IF st.currentChunk # << >>
                      THEN st.currentChunk \o <<" ">> \o trimmedSentence
                      ELSE trimmedSentence,
             overlapBuffer |->
                 IF Len(combinedForOverlap) > overlapSize
                 THEN trim(sliceLast(combinedForOverlap, overlapSize))
                 ELSE trim(combinedForOverlap)]

RECURSIVE chunkLoop(_, _, _)
chunkLoop(sentences, k, st) ==
    IF k > Len(sentences) THEN st
    ELSE LET next == chunkStep(st, sentences[k])
         IN IF Len(next.currentChunk) >= 0 THEN chunkLoop(sentences, k + 1, next) ELSE next

\* chunks.filter(chunk => chunk.length > 50)
RECURSIVE filterChunks(_)
filterChunks(chunks) ==
    IF chunks = << >> THEN << >>
    ELSE IF Len(chunks[1]) > MIN_CHUNK_LENGTH
    THEN <<chunks[1]>> \o filterChunks(Tail(chunks))
    ELSE filterChunks(Tail(chunks))

splitIntoSmartChunks(text) ==
    LET final == chunkLoop(splitIntoSentences(text), 1,
                           [chunks |-> << >>, currentChunk |-> << >>, overlapBuffer |-> << >>])
    IN filterChunks(IF trim(final.currentChunk) # << >>
                    THEN Append(final.chunks, trim(final.currentChunk))
                    ELSE final.chunks)

----------------------------------------------------------------------------
(* Arithmetic of the pipeline *)

\* Math.ceil(a / b) for a >= 0, b > 0
ceilDiv(a, b) == (a + b - 1) \div b
\* Math.round(a / b) for a >= 0, b > 0 (halves round up)
roundDiv(a, b) == (2 * a + b) \div (2 * b)

----------------------------------------------------------------------------
(* Page markers *)

PAGE_PREFIX == <<"=", "=", "=", " ", "P", "A", "G", "E", " ">>
PDF_PAGE_PREFIX == <<"=", "=", "=", " ", "P", "D", "F", " ", "P", "A", "G", "E", " ">>
OF_INFIX == <<" ", "o", "f", " ">>
MARKER_SUFFIX == <<" ", "=", "=", "=">>

\* the end of the run of digits that starts at p (p - 1 when there is none)
digitRunEnd(s, p) ==
    IF p > Len(s) \/ s[p] \notin DigitSet THEN p - 1
    ELSE CHOOSE q \in p..Len(s) :
             /\ \A j \in p..q : s[j] \in DigitSet
             /\ (q = Len(s) \/ s[q + 1] \notin DigitSet)

\* /<prefix>\d+ of (\d+) ===/ matched at position i: <<i, end, total>>,
\* or << >> when it does not match there
markerAt(s, prefix, i) ==
    IF ~LiteralAt(s, prefix, i) THEN << >>
    ELSE LET n1 == i + Len(prefix)
             n2 == digitRunEnd(s, n1)
             t1 == n2 + 1 + Len(OF_INFIX)
             t2 == digitRunEnd(s, t1)
         IN IF /\ n2 >= n1
               /\ LiteralAt(s, OF_INFIX, n2 + 1)
               /\ t2 >= t1
               /\ LiteralAt(s, MARKER_SUFFIX, t2 + 1)
            THEN <<i, t2 + Len(MARKER_SUFFIX), parseInt(SubSeq(s, t1, t2))>>
            ELSE << >>

\* text.match(/<prefix>\d+ of (\d+) ===/g): the totals of the matches, in order
RECURSIVE markerScan(_, _)
markerScan(found, from) ==
    LET later == {m \in found : m[1] >= from}
    IN IF later = {} THEN << >>
       ELSE LET m == CHOOSE x \in later : \A y \in later : x[1] <= y[1]
            IN <<m[3]>> \o markerScan(found, m[2] + 1)

markerTotals(s, prefix) ==
    LET cand == {i \in 1..Len(s) : s[i] = "=" /\ markerAt(s, prefix, i) # << >>}
    IN markerScan({markerAt(s, prefix, i) : i \in cand}, 1)

----------------------------------------------------------------------------
(* AI transport: fetchWithRetry and handleAiError *)

NetworkError == 0   \* fetch rejects (no HTTP status)
Statuses == {200, 400, 402, 429, 500, NetworkError}
MAX_RETRIES == 3
\* what the gateway does on the successive attempts of one call
Scripts == [1..MAX_RETRIES -> Statuses]

FETCH_FAILED == "fetch failed"
MAX_RETRIES_EXCEEDED == "Max retries exceeded"

\* no exception caught so far (let lastError: Error | null = null)
noError == [message |-> NULL, attempt |-> NullInt]

\* Math.pow(2, attempt) * 1000
retryWait_constant(attempt) == 1000
retryWait(attempt) == (2 ^ attempt) * 1000

\* the for-loop of fetchWithRetry from attempt on (attempt is 0-based);
\* lastError is the network exception caught last (its message, the attempt that
\* raised it) or noError; waits are the timeouts awaited so far.
\* [throws, status, message, attempts, waits, thrownAt]
RECURSIVE fetchLoop(_, _, _, _, _)
fetchLoop(script, maxRetries, attempt, lastError, waits) ==
    IF attempt >= maxRetries
    THEN [throws |-> TRUE, status |-> NetworkError,
          message |-> IF lastError # noError THEN lastError.message
                      ELSE MAX_RETRIES_EXCEEDED,
          attempts |-> attempt, waits |-> waits, thrownAt |-> lastError.attempt]
    ELSE LET status == script[attempt + 1]
         IN IF status = NetworkError
            THEN fetchLoop(script, maxRetries, attempt + 1,
                           [message |-> FETCH_FAILED, attempt |-> attempt],
                           Append(waits, retryWait(attempt)))
            ELSE IF status >= 400 /\ status < 500 /\ status # 429
            THEN [throws |-> FALSE, status |-> status, message |-> NULL,
                  attempts |-> attempt + 1, waits |-> waits, thrownAt |-> NullInt]
            ELSE IF status >= 500 \/ status = 429
            THEN fetchLoop(script, maxRetries, attempt + 1, lastError,
                           Append(waits, retryWait(attempt)))
            ELSE [throws |-> FALSE, status |-> status, message |-> NULL,
                  attempts |-> attempt + 1, waits |-> waits, thrownAt |-> NullInt]

fetchWithRetry(script, maxRetries) == fetchLoop(script, maxRetries, 0, noError, << >>)

\* the Error handleAiError throws for a response that is not ok
handleAiError(status) ==
    IF status = 429 THEN "AI rate limit exceeded. Please try again in a few minutes."
    ELSE IF status = 402 THEN "AI credits exhausted. Please add funds to continue."
    ELSE "AI extraction failed (" \o ToString(status) \o ")"

\* what fetchWithRetry can do, over all the gateway's behaviours
FetchOutcomes == {fetchWithRetry(script, MAX_RETRIES) : script \in Scripts}

\* One AI call of extractPdfSingleCall / extractPdfPageRange / extractDocxContent
\* given what fetchWithRetry did: handleAiError when the response is not ok, else
\* the content of the answer. [throws, message, text]
aiCall(r, answer) ==
    IF r.throws THEN [throws |-> TRUE, message |-> r.message, text |-> NoText]
    ELSE IF ~(r.status >= 200 /\ r.status <= 299)
    THEN [throws |-> TRUE, message |-> handleAiError(r.status), text |-> NoText]
    ELSE [throws |-> FALSE, message |-> NULL, text |-> answer]

----------------------------------------------------------------------------
(* Tables *)

PDF == <<"p", "d", "f">>
TXT == <<"t", "x", "t">>
DOCX == <<"d", "o", "c", "x">>
DOC == <<"d", "o", "c">>

\* the row uploadFiles inserts: status pending, page_count from the client-side
\* extraction (or NULL), the column defaults for the rest
newSource(file_type, file_size, page_count) ==
    [status |-> "pending",
     error_message |-> NULL,
     processing_started_at |-> NullInt,
     processing_progress |-> 0,
     processing_info |-> NULL,
     page_count |-> page_count,
     content_preview |-> NoText,
     updated_at |-> now,
     file_type |-> file_type,
     file_size |-> file_size]

\* trigger update_sources_updated_at: BEFORE UPDATE ... update_updated_at()
update_updated_at(row) == [row EXCEPT !.updated_at = now]

\* supabase.from("sources").update(fields).eq("id", id)
updateSource(id, fields) ==
    [sources EXCEPT ![id] =
        update_updated_at([k \in DOMAIN @ |-> IF k \in DOMAIN fields THEN fields[k] ELSE @[k]])]

\* the rows of source_chunks of one document
chunksOf(id) == {r \in source_chunks : r.source_id = id}

\* select chunk_index, content from source_chunks where source_id = id
storedChunks(id) == {<<r.chunk_index, r.content>> : r \in chunksOf(id)}

----------------------------------------------------------------------------
(* process-document: the trigger handler and the background job *)

\* the HTTP responses of the handler
noResponse == [status |-> NullInt, success |-> FALSE, message |-> NULL]
sourceIdRequired == [status |-> 400, success |-> FALSE, message |-> "sourceId is required"]
sourceNotFound == [status |-> 404, success |-> FALSE, message |-> "Source not found"]
processingStarted ==
    [status |-> 200, success |-> TRUE, message |-> "Document processing started"]

\* const usage: UsageAccumulator = { promptTokens: 0, completionTokens: 0, aiCalls: 0 }
noUsage == [promptTokens |-> 0, completionTokens |-> 0, aiCalls |-> 0]

\* btoa of the bytes of the file: its length
base64Length(file_size) == 4 * ceilDiv(file_size, 3)

\* systemPrompt.length + userContent.length of extractPdfSingleCall and of
\* extractDocxContent
pdfSinglePromptChars == 513 + 75
docxPromptChars == 559 + 92

\* systemPrompt.length + userContent.length of extractPdfPageRange: the
\* templates hold startPage and endPage three times each and totalPages twice
pageRangePromptChars(start, end, totalPages) ==
    357 + 69 + 3 * Len(numberChars(start)) + 3 * Len(numberChars(end))
    + 2 * Len(numberChars(totalPages))

\* usage.aiCalls++;
\* usage.promptTokens += Math.ceil((systemPrompt.length + userContent.length
\*                                  + base64Content.length * 0.1) / 4);
\* usage.completionTokens += Math.ceil(text.length / 4)
trackUsage(usage, promptChars, base64Chars, text) ==
    [aiCalls |-> usage.aiCalls + 1,
     promptTokens |-> usage.promptTokens + ceilDiv(10 * promptChars + base64Chars, 40),
     completionTokens |-> usage.completionTokens + ceilDiv(Len(text), 4)]

\* the row inserted into ai_usage_logs; estimated_cost in billionths of a
\* dollar (PRICING: 0.075 and 0.30 dollars per million tokens)
usageRow(sourceId, file_type, usage) ==
    [operation_type |-> "document_processing",
     prompt_tokens |-> usage.promptTokens,
     completion_tokens |-> usage.completionTokens,
     total_tokens |-> usage.promptTokens + usage.completionTokens,
     estimated_cost |-> usage.promptTokens * 75 + usage.completionTokens * 300,
     source_id |-> sourceId, file_type |-> file_type, ai_calls |-> usage.aiCalls]

idleJob ==
    [pc |-> "idle", sourceId |-> NULL, preExtractedText |-> NoText,
     file_type |-> NoText, file_size |-> 0, page_count |-> NullInt,
     textContent |-> NoText, pageCount |-> 0,
     estimatedPages |-> 0, batch |-> 0, allText |-> << >>, actualPageCount |-> 0,
     contentPreview |-> NoText, chunks |-> << >>, i |-> 0,
     errorMessage |-> NULL, outcome |-> NULL, response |-> noResponse,
     stored |-> {}, usage |-> noUsage]

\* the positions at which the detached job is running
BackgroundPcs ==
    {"start", "pre_update", "download", "single_call", "docx_call",
     "batch_heartbeat", "batch_call", "delete", "insert", "ready", "catch"}

freeJobs == {j \in JobIds : jobs[j].pc = "idle"}

\* supabase.functions.invoke('process-document', { body: { sourceId, preExtractedText } })
invoke(sourceId, preExtractedText) ==
    LET j == Min(freeJobs)
    IN [jobs EXCEPT ![j] = [idleJob EXCEPT !.pc = "select", !.sourceId = sourceId,
                                           !.preExtractedText = preExtractedText]]

\* a finished job keeps only how it ended, its response and, when it ended in
\* ready, the chunks the table held for its document at that moment (stored)
finished(job, outcome) ==
    [idleJob EXCEPT !.pc = "done", !.sourceId = job.sourceId, !.outcome = outcome,
                    !.response = job.response]

\* a handler that returned without scheduling a job
rejected(job, response) ==
    [idleJob EXCEPT !.pc = "done", !.sourceId = job.sourceId, !.outcome = "rejected",
                    !.response = response]

\* serve: 400 without sourceId; select the source row, 404 when there is none
serve_select(j) ==
    /\ jobs[j].pc = "select"
    /\ IF jobs[j].sourceId = NULL
       THEN jobs' = [jobs EXCEPT ![j] = rejected(@, sourceIdRequired)]
       ELSE IF jobs[j].sourceId \notin DOMAIN sources
       THEN jobs' = [jobs EXCEPT ![j] = rejected(@, sourceNotFound)]
       ELSE LET source == sources[jobs[j].sourceId]
            IN jobs' = [jobs EXCEPT ![j].pc = "update",
                                    ![j].file_type = source.file_type,
                                    ![j].file_size = source.file_size,
                                    ![j].page_count = source.page_count]
    /\ UNCHANGED <<now, sources, source_chunks, storage, aiTexts, sweeps, clicked, picked, calls,
                 ai_usage_logs>>

\* the fields of the handler's update: status processing, the start stamped
processingFields_noStamp ==
    [status |-> "processing",
     error_message |-> NULL,
     processing_progress |-> 0,
     processing_info |-> "Starting processing..."]
processingFields ==
    [status |-> "processing",
     error_message |-> NULL,
     processing_started_at |-> now,
     processing_progress |-> 0,
     processing_info |-> "Starting processing..."]

\* serve: status processing, then EdgeRuntime.waitUntil(processDocumentInBackground(..))
\* and the response, which does not await the job
serve_update(j) ==
    /\ jobs[j].pc = "update"
    /\ sources' = updateSource(jobs[j].sourceId, processingFields)
    /\ jobs' = [jobs EXCEPT ![j].pc = "start", ![j].response = processingStarted]
    /\ UNCHANGED <<now, source_chunks, storage, aiTexts, sweeps, clicked, picked, calls,
                 ai_usage_logs>>

\* source.page_count || 1
pageCountOr1(page_count) == IF page_count = NullInt \/ page_count = 0 THEN 1 ELSE page_count

\* page count of pre-extracted text: the total of the last "=== PAGE n of m ===" marker
preExtractedPageCount(text, page_count) ==
    LET totals == markerTotals(text, PAGE_PREFIX)
    IN IF totals # << >> THEN totals[Len(totals)] ELSE pageCountOr1(page_count)

\* processDocumentInBackground: the branch on preExtractedText
processDocumentInBackground_start(j) ==
    /\ jobs[j].pc = "start"
    /\ jobs' = IF Len(jobs[j].preExtractedText) > 0
               THEN [jobs EXCEPT ![j].pc = "pre_update",
                                 ![j].textContent = jobs[j].preExtractedText,
                                 ![j].pageCount = preExtractedPageCount(
                                     jobs[j].preExtractedText, jobs[j].page_count)]
               ELSE [jobs EXCEPT ![j].pc = "download",
                                 ![j].pageCount = pageCountOr1(jobs[j].page_count)]
    /\ UNCHANGED <<now, sources, source_chunks, storage, aiTexts, sweeps, clicked, picked, calls,
                 ai_usage_logs>>

\* processDocumentInBackground: progress 50 after taking the pre-extracted text
processDocumentInBackground_preExtracted(j) ==
    /\ jobs[j].pc = "pre_update"
    /\ sources' = updateSource(jobs[j].sourceId,
                      [processing_progress |-> 50,
                       processing_info |-> "Text extracted, creating chunks..."])
    /\ jobs' = [jobs EXCEPT ![j].pc = "delete"]
    /\ UNCHANGED <<now, source_chunks, storage, aiTexts, sweeps, clicked, picked, calls,
                 ai_usage_logs>>

TWO_MB == 2 * 1024 * 1024
BYTES_PER_PAGE == 50000
SINGLE_CALL_PAGES == 15

\* (fileSizeMB).toFixed(1)
toFixed1MB(file_size) ==
    LET tenths == roundDiv(file_size * 10, 1024 * 1024)
    IN ToString(tenths \div 10) \o "." \o ToString(tenths % 10)

tooLargeMessage(file_size) ==
    "PDF too large for server-side processing (" \o toFixed1MB(file_size) \o "MB). "
    \o "Please try re-uploading - client-side extraction should handle this automatically. "
    \o "If the issue persists, try a smaller file or contact support."

DOWNLOAD_ERROR == "Object not found"
downloadFailedMessage == "Failed to download file: " \o DOWNLOAD_ERROR

\* processDocumentInBackground: the download, then the branch on file_type up to
\* the first AI call (extractPdfContent chooses single call or batches)
processDocumentInBackground_download(j) ==
    /\ jobs[j].pc = "download"
    /\ \E downloadError \in BOOLEAN :
         LET job == jobs[j]
             throw(message) == [jobs EXCEPT ![j].pc = "catch", ![j].errorMessage = message]
             text == storage[job.sourceId]
             estimatedPages == ceilDiv(job.file_size, BYTES_PER_PAGE)
         IN jobs' =
              IF downloadError THEN throw(downloadFailedMessage)
              ELSE IF job.file_type = TXT
              THEN [jobs EXCEPT ![j].pc = "delete",
                                ![j].textContent = text,
                                ![j].pageCount =
                                    IF ceilDiv(Len(text), ESTIMATED_CHARS_PER_PAGE) = 0 THEN 1
                                    ELSE ceilDiv(Len(text), ESTIMATED_CHARS_PER_PAGE)]
              ELSE IF job.file_type = PDF
              THEN IF job.file_size > TWO_MB THEN throw(tooLargeMessage(job.file_size))
                   ELSE IF estimatedPages <= SINGLE_CALL_PAGES
                   THEN [jobs EXCEPT ![j].pc = "single_call"]
                   ELSE [jobs EXCEPT ![j].pc = "batch_heartbeat",
                                     ![j].estimatedPages = estimatedPages,
                                     ![j].actualPageCount = estimatedPages,
                                     ![j].batch = 0,
                                     ![j].allText = << >>]
              ELSE IF job.file_type = DOCX \/ job.file_type = DOC
              THEN [jobs EXCEPT ![j].pc = "docx_call"]
              ELSE [jobs EXCEPT ![j].pc = "delete"]
    /\ UNCHANGED <<now, sources, source_chunks, storage, aiTexts, sweeps, clicked, picked, calls,
                 ai_usage_logs>>

\* page count of a single-call answer: the largest total among its markers, else
\* the estimate from its length
singleCallPageCount(text) ==
    LET totals == markerTotals(text, PDF_PAGE_PREFIX)
    IN IF totals # << >> THEN Max({totals[k] : k \in 1..Len(totals)})
       ELSE Max({1, ceilDiv(Len(text), ESTIMATED_CHARS_PER_PAGE)})

\* extractPdfSingleCall
extractPdfSingleCall(j) ==
    /\ jobs[j].pc = "single_call"
    /\ \E fetched \in FetchOutcomes, answer \in aiTexts :
         LET r == aiCall(fetched, answer)
         IN jobs' = IF r.throws
                    THEN [jobs EXCEPT ![j].pc = "catch", ![j].errorMessage = r.message]
                    ELSE [jobs EXCEPT ![j].pc = "delete",
                                      ![j].textContent = r.text,
                                      ![j].pageCount = singleCallPageCount(r.text),
                                      ![j].usage = trackUsage(@, pdfSinglePromptChars,
                                                      base64Length(jobs[j].file_size), r.text)]
    /\ UNCHANGED <<now, sources, source_chunks, storage, aiTexts, sweeps, clicked, picked, calls,
                 ai_usage_logs>>

\* extractDocxContent
extractDocxContent(j) ==
    /\ jobs[j].pc = "docx_call"
    /\ \E fetched \in FetchOutcomes, answer \in aiTexts :
         LET r == aiCall(fetched, answer)
         IN jobs' = IF r.throws
                    THEN [jobs EXCEPT ![j].pc = "catch", ![j].errorMessage = r.message]
                    ELSE [jobs EXCEPT ![j].pc = "delete",
                                      ![j].textContent = r.text,
                                      ![j].pageCount =
                                          Max({1, ceilDiv(Len(r.text), ESTIMATED_CHARS_PER_PAGE)}),
                                      ![j].usage = trackUsage(@, docxPromptChars,
                                                      base64Length(jobs[j].file_size), r.text)]
    /\ UNCHANGED <<now, sources, source_chunks, storage, aiTexts, sweeps, clicked, picked, calls,
                 ai_usage_logs>>

\* extractPdfInBatches: the page range of a batch (batch is 0-based)
totalBatches(estimatedPages) == ceilDiv(estimatedPages, PAGES_PER_BATCH)
startPage(batch) == batch * PAGES_PER_BATCH + 1
\* an end page that is not cut at the last page of the document
endPage_unclamped(batch, estimatedPages) == (batch + 1) * PAGES_PER_BATCH

endPage(batch, estimatedPages) ==
    IF (batch + 1) * PAGES_PER_BATCH <= estimatedPages
    THEN (batch + 1) * PAGES_PER_BATCH ELSE estimatedPages

\* a progress that fills the whole 0-100 range during extraction
progressPercent_ofHundred(batch, total) == roundDiv(batch * 100, total)

\* Math.round((batch / totalBatches) * 80)
progressPercent(batch, total) == roundDiv(batch * 80, total)

\* `[Error extracting pages ${startPage}-${endPage}]`
errorPlaceholder(first, last) ==
    <<"[", "E", "r", "r", "o", "r", " ", "e", "x", "t", "r", "a", "c", "t", "i", "n", "g", " ", "p", "a", "g", "e", "s", " ">>
    \o numberChars(first) \o <<"-">> \o numberChars(last) \o <<"]">>

\* extractPdfInBatches: the heartbeat written before the AI call of a batch
extractPdfInBatches_heartbeat(j) ==
    /\ jobs[j].pc = "batch_heartbeat"
    /\ LET job == jobs[j]
       IN sources' = updateSource(job.sourceId,
              [processing_progress |->
                   progressPercent(job.batch, totalBatches(job.estimatedPages)),
               processing_info |->
                   "Processing pages " \o ToString(startPage(job.batch)) \o "-"
                   \o ToString(endPage(job.batch, job.estimatedPages)) \o " of ~"
                   \o ToString(job.estimatedPages) \o "...",
               updated_at |-> now])
    /\ jobs' = [jobs EXCEPT ![j].pc = "batch_call"]
    /\ UNCHANGED <<now, source_chunks, storage, aiTexts, sweeps, clicked, picked, calls,
                 ai_usage_logs>>

\* a batch loop that writes its progress before the first batch only
extractPdfInBatches_batch_oneHeartbeat(j) ==
    /\ jobs[j].pc = "batch_call"
    /\ \E fetched \in FetchOutcomes, answer \in aiTexts :
         LET job == jobs[j]
             r == aiCall(fetched, answer)
             batchText == IF r.throws
                          THEN errorPlaceholder(startPage(job.batch),
                                                endPage(job.batch, job.estimatedPages))
                          ELSE r.text
             allText == Append(job.allText, batchText)
             firstTotals == markerTotals(r.text, PDF_PAGE_PREFIX)
             actualPageCount == IF ~r.throws /\ job.batch = 0 /\ firstTotals # << >>
                                THEN firstTotals[1] ELSE job.actualPageCount
         IN jobs' = IF job.batch + 1 < totalBatches(job.estimatedPages)
                    THEN [jobs EXCEPT ![j].pc = "batch_call",
                                      ![j].batch = job.batch + 1,
                                      ![j].allText = allText,
                                      ![j].usage =
                                          IF r.throws THEN @
                                          ELSE trackUsage(@,
                                                   pageRangePromptChars(startPage(job.batch),
                                                       endPage(job.batch, job.estimatedPages),
                                                       job.estimatedPages),
                                                   base64Length(job.file_size), r.text),
                                      ![j].actualPageCount = actualPageCount]
                    ELSE [jobs EXCEPT ![j].pc = "delete",
                                      ![j].batch = job.batch + 1,
                                      ![j].allText = allText,
                                      ![j].usage =
                                          IF r.throws THEN @
                                          ELSE trackUsage(@,
                                                   pageRangePromptChars(startPage(job.batch),
                                                       endPage(job.batch, job.estimatedPages),
                                                       job.estimatedPages),
                                                   base64Length(job.file_size), r.text),
                                      ![j].actualPageCount = actualPageCount,
                                      ![j].textContent = joinBlankLine(allText),
                                      ![j].pageCount = actualPageCount]
    /\ UNCHANGED <<now, sources, source_chunks, storage, aiTexts, sweeps, clicked, picked, calls,
                 ai_usage_logs>>

\* a batch loop that advances by two batches after each call
extractPdfInBatches_batch_skipping(j) ==
    /\ jobs[j].pc = "batch_call"
    /\ \E fetched \in FetchOutcomes, answer \in aiTexts :
         LET job == jobs[j]
             r == aiCall(fetched, answer)
             batchText == IF r.throws
                          THEN errorPlaceholder(startPage(job.batch),
                                                endPage(job.batch, job.estimatedPages))
                          ELSE r.text
             allText == Append(job.allText, batchText)
             firstTotals == markerTotals(r.text, PDF_PAGE_PREFIX)
             actualPageCount == IF ~r.throws /\ job.batch = 0 /\ firstTotals # << >>
                                THEN firstTotals[1] ELSE job.actualPageCount
         IN jobs' = IF job.batch + 1 < totalBatches(job.estimatedPages)
                    THEN [jobs EXCEPT ![j].pc = "batch_heartbeat",
                                      ![j].batch = job.batch + 2,
                                      ![j].allText = allText,
                                      ![j].usage =
                                          IF r.throws THEN @
                                          ELSE trackUsage(@,
                                                   pageRangePromptChars(startPage(job.batch),
                                                       endPage(job.batch, job.estimatedPages),
                                                       job.estimatedPages),
                                                   base64Length(job.file_size), r.text),
                                      ![j].actualPageCount = actualPageCount]
                    ELSE [jobs EXCEPT ![j].pc = "delete",
                                      ![j].batch = job.batch + 1,
                                      ![j].allText = allText,
                                      ![j].usage =
                                          IF r.throws THEN @
                                          ELSE trackUsage(@,
                                                   pageRangePromptChars(startPage(job.batch),
                                                       endPage(job.batch, job.estimatedPages),
                                                       job.estimatedPages),
                                                   base64Length(job.file_size), r.text),
                                      ![j].actualPageCount = actualPageCount,
                                      ![j].textContent = joinBlankLine(allText),
                                      ![j].pageCount = actualPageCount]
    /\ UNCHANGED <<now, sources, source_chunks, storage, aiTexts, sweeps, clicked, picked, calls,
                 ai_usage_logs>>

\* a batch loop without the try/catch around extractPdfPageRange
extractPdfInBatches_batch_uncaught(j) ==
    /\ jobs[j].pc = "batch_call"
    /\ \E fetched \in FetchOutcomes, answer \in aiTexts :
         LET job == jobs[j]
             r == aiCall(fetched, answer)
             allText == Append(job.allText, r.text)
         IN jobs' = IF r.throws
                    THEN [jobs EXCEPT ![j].pc = "catch", ![j].errorMessage = r.message]
                    ELSE IF job.batch + 1 < totalBatches(job.estimatedPages)
                    THEN [jobs EXCEPT ![j].pc = "batch_heartbeat",
                                      ![j].batch = job.batch + 1,
                                      ![j].allText = allText,
                                      ![j].usage =
                                          trackUsage(@,
                                              pageRangePromptChars(startPage(job.batch),
                                                  endPage(job.batch, job.estimatedPages),
                                                  job.estimatedPages),
                                              base64Length(job.file_size), r.text)]
                    ELSE [jobs EXCEPT ![j].pc = "delete",
                                      ![j].batch = job.batch + 1,
                                      ![j].allText = allText,
                                      ![j].usage =
                                          IF r.throws THEN @
                                          ELSE trackUsage(@,
                                                   pageRangePromptChars(startPage(job.batch),
                                                       endPage(job.batch, job.estimatedPages),
                                                       job.estimatedPages),
                                                   base64Length(job.file_size), r.text),
                                      ![j].textContent = joinBlankLine(allText),
                                      ![j].pageCount = job.actualPageCount]
    /\ UNCHANGED <<now, sources, source_chunks, storage, aiTexts, sweeps, clicked, picked, calls,
                 ai_usage_logs>>

\* extractPdfInBatches: extractPdfPageRange for the batch inside its try/catch,
\* then the next batch or the joined text
extractPdfInBatches_batch(j) ==
    /\ jobs[j].pc = "batch_call"
    /\ \E fetched \in FetchOutcomes, answer \in aiTexts :
         LET job == jobs[j]
             r == aiCall(fetched, answer)
             batchText == IF r.throws
                          THEN errorPlaceholder(startPage(job.batch),
                                                endPage(job.batch, job.estimatedPages))
                          ELSE r.text
             allText == Append(job.allText, batchText)
             firstTotals == markerTotals(r.text, PDF_PAGE_PREFIX)
             actualPageCount == IF ~r.throws /\ job.batch = 0 /\ firstTotals # << >>
                                THEN firstTotals[1] ELSE job.actualPageCount
         IN jobs' = IF job.batch + 1 < totalBatches(job.estimatedPages)
                    THEN [jobs EXCEPT ![j].pc = "batch_heartbeat",
                                      ![j].batch = job.batch + 1,
                                      ![j].allText = allText,
                                      ![j].usage =
                                          IF r.throws THEN @
                                          ELSE trackUsage(@,
                                                   pageRangePromptChars(startPage(job.batch),
                                                       endPage(job.batch, job.estimatedPages),
                                                       job.estimatedPages),
                                                   base64Length(job.file_size), r.text),
                                      ![j].actualPageCount = actualPageCount]
                    ELSE [jobs EXCEPT ![j].pc = "delete",
                                      ![j].batch = job.batch + 1,
                                      ![j].allText = allText,
                                      ![j].usage =
                                          IF r.throws THEN @
                                          ELSE trackUsage(@,
                                                   pageRangePromptChars(startPage(job.batch),
                                                       endPage(job.batch, job.estimatedPages),
                                                       job.estimatedPages),
                                                   base64Length(job.file_size), r.text),
                                      ![j].actualPageCount = actualPageCount,
                                      ![j].textContent = joinBlankLine(allText),
                                      ![j].pageCount = actualPageCount]
    /\ UNCHANGED <<now, sources, source_chunks, storage, aiTexts, sweeps, clicked, picked, calls,
                 ai_usage_logs>>

\* textContent.substring(0, 500).trim() || `[${source.file_type.toUpperCase()} document]`
PREVIEW_LENGTH == 500
contentPreview_noPlaceholder(textContent, file_type) ==
    trim(substring0(textContent, PREVIEW_LENGTH))
contentPreview(textContent, file_type) ==
    LET lead == trim(substring0(textContent, PREVIEW_LENGTH))
    IN IF lead # << >> THEN lead
       ELSE <<"[">> \o [k \in 1..Len(file_type) |-> toUpperCase(file_type[k])]
            \o <<" ", "d", "o", "c", "u", "m", "e", "n", "t", "]">>

INSERT_BATCH == 50

\* a delete without the source_id filter
processDocumentInBackground_delete_unfiltered(j) ==
    /\ jobs[j].pc = "delete"
    /\ LET job == jobs[j]
           chunks == IF job.textContent # NoText
                     THEN splitIntoSmartChunks(job.textContent) ELSE << >>
       IN /\ source_chunks' = {}
          /\ jobs' = [jobs EXCEPT ![j].pc = IF Len(chunks) > 0 THEN "insert" ELSE "ready",
                                  ![j].contentPreview =
                                      contentPreview(job.textContent, job.file_type),
                                  ![j].chunks = chunks,
                                  ![j].i = 0]
    /\ UNCHANGED <<now, sources, storage, aiTexts, sweeps, clicked, picked, calls,
                 ai_usage_logs>>

\* processDocumentInBackground: preview and chunks are computed, then the
\* existing chunks of the document are deleted
processDocumentInBackground_delete(j) ==
    /\ jobs[j].pc = "delete"
    /\ LET job == jobs[j]
           chunks == IF job.textContent # NoText
                     THEN splitIntoSmartChunks(job.textContent) ELSE << >>
       IN /\ source_chunks' = source_chunks \ chunksOf(job.sourceId)
          /\ jobs' = [jobs EXCEPT ![j].pc = IF Len(chunks) > 0 THEN "insert" ELSE "ready",
                                  ![j].contentPreview =
                                      contentPreview(job.textContent, job.file_type),
                                  ![j].chunks = chunks,
                                  ![j].i = 0]
    /\ UNCHANGED <<now, sources, storage, aiTexts, sweeps, clicked, picked, calls,
                 ai_usage_logs>>

\* chunks.map((content, index) => ({ source_id, chunk_index: index, content }))
\* .slice(i, i + 50); the row id is the primary key the database generates
chunkInserts(j, sourceId, chunks, i) ==
    {[id |-> <<j, index>>, source_id |-> sourceId, chunk_index |-> index,
      content |-> chunks[index + 1]] :
        index \in {k \in i..(i + INSERT_BATCH - 1) : k < Len(chunks)}}

\* an insert loop that throws on a failed insert, after earlier batches went in
processDocumentInBackground_insert_throwing(j) ==
    /\ jobs[j].pc = "insert"
    /\ \E chunksError \in BOOLEAN :
         LET job == jobs[j]
         IN /\ source_chunks' =
                   IF chunksError THEN source_chunks
                   ELSE source_chunks \cup chunkInserts(j, job.sourceId, job.chunks, job.i)
            /\ jobs' = IF chunksError
                       THEN [jobs EXCEPT ![j].pc = "catch",
                                         ![j].errorMessage = "Failed to insert chunks"]
                       ELSE [jobs EXCEPT ![j].i = job.i + INSERT_BATCH,
                                         ![j].pc = IF job.i + INSERT_BATCH < Len(job.chunks)
                                                   THEN "insert" ELSE "ready"]
    /\ UNCHANGED <<now, sources, storage, aiTexts, sweeps, clicked, picked, calls,
                 ai_usage_logs>>

\* processDocumentInBackground: one iteration of the insert loop; a failed
\* insert (chunksError) is logged and the loop goes on
processDocumentInBackground_insert(j) ==
    /\ jobs[j].pc = "insert"
    /\ \E chunksError \in BOOLEAN :
         LET job == jobs[j]
         IN /\ source_chunks' =
                   IF chunksError THEN source_chunks
                   ELSE source_chunks \cup chunkInserts(j, job.sourceId, job.chunks, job.i)
            /\ jobs' = [jobs EXCEPT ![j].i = job.i + INSERT_BATCH,
                                    ![j].pc = IF job.i + INSERT_BATCH < Len(job.chunks)
                                              THEN "insert" ELSE "ready"]
    /\ UNCHANGED <<now, sources, storage, aiTexts, sweeps, clicked, picked, calls,
                 ai_usage_logs>>

\* a success write that leaves error_message as it is
processDocumentInBackground_ready_keepError(j) ==
    /\ jobs[j].pc = "ready"
    /\ sources' = updateSource(jobs[j].sourceId,
                      [status |-> "ready",
                       content_preview |-> jobs[j].contentPreview,
                       page_count |-> jobs[j].pageCount])
    /\ jobs' = [jobs EXCEPT ![j] = [finished(jobs[j], "ready") EXCEPT
                                       !.stored = storedChunks(jobs[j].sourceId)]]
    /\ ai_usage_logs' = IF jobs[j].usage.aiCalls > 0
                        THEN Append(ai_usage_logs,
                                    usageRow(jobs[j].sourceId, jobs[j].file_type, jobs[j].usage))
                        ELSE ai_usage_logs
    /\ UNCHANGED <<now, source_chunks, storage, aiTexts, sweeps, clicked, picked, calls>>

\* variant: an exception after the success write, caught by the catch block
processDocumentInBackground_ready_thenCatch(j) ==
    /\ jobs[j].pc = "ready"
    /\ sources' = updateSource(jobs[j].sourceId,
                      [status |-> "ready",
                       content_preview |-> jobs[j].contentPreview,
                       page_count |-> jobs[j].pageCount,
                       error_message |-> NULL])
    /\ jobs' = [jobs EXCEPT ![j].pc = "catch", ![j].errorMessage = "Unknown processing error"]
    /\ ai_usage_logs' = ai_usage_logs
    /\ UNCHANGED <<now, source_chunks, storage, aiTexts, sweeps, clicked, picked, calls>>

\* processDocumentInBackground: update source with success
processDocumentInBackground_ready(j) ==
    /\ jobs[j].pc = "ready"
    /\ sources' = updateSource(jobs[j].sourceId,
                      [status |-> "ready",
                       content_preview |-> jobs[j].contentPreview,
                       page_count |-> jobs[j].pageCount,
                       error_message |-> NULL])
    /\ jobs' = [jobs EXCEPT ![j] = [finished(jobs[j], "ready") EXCEPT
                                       !.stored = storedChunks(jobs[j].sourceId)]]
    /\ ai_usage_logs' = IF jobs[j].usage.aiCalls > 0
                        THEN Append(ai_usage_logs,
                                    usageRow(jobs[j].sourceId, jobs[j].file_type, jobs[j].usage))
                        ELSE ai_usage_logs
    /\ UNCHANGED <<now, source_chunks, storage, aiTexts, sweeps, clicked, picked, calls>>

\* a catch block that records a fixed message instead of the exception's
processDocumentInBackground_catch_generic(j) ==
    /\ jobs[j].pc = "catch"
    /\ sources' = updateSource(jobs[j].sourceId,
                      [status |-> "error",
                       error_message |-> "Unknown processing error"])
    /\ jobs' = [jobs EXCEPT ![j] = finished(jobs[j], "error")]
    /\ UNCHANGED <<now, source_chunks, storage, aiTexts, sweeps, clicked, picked, calls,
                 ai_usage_logs>>

\* processDocumentInBackground: the catch block
processDocumentInBackground_catch(j) ==
    /\ jobs[j].pc = "catch"
    /\ sources' = updateSource(jobs[j].sourceId,
                      [status |-> "error",
                       error_message |-> jobs[j].errorMessage])
    /\ jobs' = [jobs EXCEPT ![j] = finished(jobs[j], "error")]
    /\ UNCHANGED <<now, source_chunks, storage, aiTexts, sweeps, clicked, picked, calls,
                 ai_usage_logs>>

\* the runtime ends the detached job (wall-clock limit, shutdown) without a
\* terminal write
EdgeRuntime_shutdown(j) ==
    /\ jobs[j].pc \in BackgroundPcs
    /\ jobs' = [jobs EXCEPT ![j] = finished(jobs[j], "dead")]
    /\ UNCHANGED <<now, sources, source_chunks, storage, aiTexts, sweeps, clicked, picked, calls,
                 ai_usage_logs>>

----------------------------------------------------------------------------
(* useSources: reprocessSource *)

\* reprocessSource: the Reprocess button (shown on a source in error) resets
\* the row to pending
reprocessSource_reset(sourceId) ==
    /\ sources[sourceId].status = "error"
    /\ sourceId \notin clicked
    /\ Cardinality(freeJobs) > Cardinality(clicked)
    /\ sources' = updateSource(sourceId,
                      [status |-> "pending",
                       error_message |-> NULL,
                       processing_progress |-> 0,
                       processing_info |-> NULL])
    /\ clicked' = clicked \cup {sourceId}
    /\ UNCHANGED <<now, source_chunks, storage, aiTexts, jobs, sweeps, picked, calls,
                 ai_usage_logs>>

\* variant: the invocation sends a text along
reprocessSource_invoke_withText(sourceId) ==
    /\ sourceId \in clicked
    /\ jobs' = invoke(sourceId, <<"=", "=", "=", " ", "P", "A", "G", "E", " ", "1", " ", "o",
                                  "f", " ", "1", " ", "=", "=", "=", "\n", "T", "e", "x", "t", ".">>)
    /\ clicked' = clicked \ {sourceId}
    /\ UNCHANGED <<now, sources, source_chunks, storage, aiTexts, sweeps, picked, calls,
                 ai_usage_logs>>

\* reprocessSource: invoke process-document with { sourceId }
reprocessSource_invoke(sourceId) ==
    /\ sourceId \in clicked
    /\ jobs' = invoke(sourceId, NoText)
    /\ clicked' = clicked \ {sourceId}
    /\ UNCHANGED <<now, sources, source_chunks, storage, aiTexts, sweeps, picked, calls,
                 ai_usage_logs>>

----------------------------------------------------------------------------
(* cleanup-stuck-documents *)

idleSweep == [pc |-> "idle", stuckDocs |-> {}]

thresholdTime == now - STUCK_THRESHOLD_MINUTES * 60 * 1000

\* a selection that looks at processing documents only
isStuck_processingOnly(row, T) ==
    /\ row.status = "processing"
    /\ \/ row.processing_started_at # NullInt /\ row.processing_started_at < T
       \/ row.processing_started_at = NullInt /\ row.updated_at < T

\* .in("status", ["processing", "pending"])
\* .or(`processing_started_at.lt.T,and(processing_started_at.is.null,updated_at.lt.T)`)
isStuck(row, T) ==
    /\ row.status \in {"processing", "pending"}
    /\ \/ row.processing_started_at # NullInt /\ row.processing_started_at < T
       \/ row.processing_started_at = NullInt /\ row.updated_at < T

\* doc.processing_started_at || doc.updated_at
startTimeOf(row) ==
    IF row.processing_started_at # NullInt THEN row.processing_started_at ELSE row.updated_at

\* Math.round((Date.now() - new Date(startTime).getTime()) / 60000)
stuckMinutes(startTime) == roundDiv(now - startTime, 60000)

timedOutMessage(minutes) ==
    "Processing timed out after " \o ToString(minutes)
    \o " minutes. Click Reprocess to try again."

\* serve: the select of the stuck documents (fetchSources invokes the function)
cleanup_select(s) ==
    /\ sweeps[s].pc = "idle"
    /\ \A t \in SweepIds : t < s => sweeps[t].pc # "idle"
    /\ LET stuckDocs == {[id |-> id, startTime |-> startTimeOf(sources[id])] :
                            id \in {d \in DOMAIN sources : isStuck(sources[d], thresholdTime)}}
       IN sweeps' = [sweeps EXCEPT ![s] =
                        IF stuckDocs = {} THEN [idleSweep EXCEPT !.pc = "done"]
                        ELSE [pc |-> "marking", stuckDocs |-> stuckDocs]]
    /\ UNCHANGED <<now, sources, source_chunks, storage, aiTexts, jobs, clicked, picked, calls,
                 ai_usage_logs>>

\* a marking loop that writes the message but not the status
cleanup_update_messageOnly(s) ==
    /\ sweeps[s].pc = "marking"
    /\ \E doc \in sweeps[s].stuckDocs :
         /\ sources' = updateSource(doc.id,
                           [error_message |-> timedOutMessage(stuckMinutes(doc.startTime)),
                            processing_progress |-> NullInt,
                            processing_info |-> NULL])
         /\ sweeps' = [sweeps EXCEPT ![s] =
                          IF sweeps[s].stuckDocs = {doc} THEN [idleSweep EXCEPT !.pc = "done"]
                          ELSE [pc |-> "marking", stuckDocs |-> sweeps[s].stuckDocs \ {doc}]]
    /\ UNCHANGED <<now, source_chunks, storage, aiTexts, jobs, clicked, picked, calls,
                 ai_usage_logs>>

\* serve: one iteration of the loop that marks the selected documents as error
cleanup_update(s) ==
    /\ sweeps[s].pc = "marking"
    /\ \E doc \in sweeps[s].stuckDocs :
         /\ sources' = updateSource(doc.id,
                           [status |-> "error",
                            error_message |-> timedOutMessage(stuckMinutes(doc.startTime)),
                            processing_progress |-> NullInt,
                            processing_info |-> NULL])
         /\ sweeps' = [sweeps EXCEPT ![s] =
                          IF sweeps[s].stuckDocs = {doc} THEN [idleSweep EXCEPT !.pc = "done"]
                          ELSE [pc |-> "marking", stuckDocs |-> sweeps[s].stuckDocs \ {doc}]]
    /\ UNCHANGED <<now, source_chunks, storage, aiTexts, jobs, clicked, picked, calls,
                 ai_usage_logs>>

----------------------------------------------------------------------------
(* The clock *)

Tick ==
    /\ now < MaxTicks * TickMs
    /\ now' = now + TickMs
    /\ UNCHANGED <<sources, source_chunks, storage, aiTexts, jobs, sweeps, clicked, picked, calls,
                 ai_usage_logs>>

----------------------------------------------------------------------------
(* Inputs: file contents, client-side extractions and AI answers *)

\* "Hello world. This is a test."
TEXT_HELLO ==
    <<"H", "e", "l", "l", "o", " ", "w", "o", "r", "l", "d", ".", " ", "T", "h", "i", "s",
    " ", "i", "s", " ", "a", " ", "t", "e", "s", "t", ".">>

\* "Refund policy applies to all orders. Contact Dr. Smith about any refund."
TEXT_REFUND ==
    <<"R", "e", "f", "u", "n", "d", " ", "p", "o", "l", "i", "c", "y", " ", "a", "p", "p",
    "l", "i", "e", "s", " ", "t", "o", " ", "a", "l", "l", " ", "o", "r", "d", "e", "r",
    "s", ".", " ", "C", "o", "n", "t", "a", "c", "t", " ", "D", "r", ".", " ", "S", "m",
    "i", "t", "h", " ", "a", "b", "o", "u", "t", " ", "a", "n", "y", " ", "r", "e", "f",
    "u", "n", "d", ".">>

\* "=== PDF PAGE 1 of 2 ===\nInvoice total is due on receipt. Pay now.\n\n=== PDF PAGE 2 of 2 ===\nThank you."
TEXT_PDF_PAGES ==
    <<"=", "=", "=", " ", "P", "D", "F", " ", "P", "A", "G", "E", " ", "1", " ", "o", "f",
    " ", "2", " ", "=", "=", "=", "\n", "I", "n", "v", "o", "i", "c", "e", " ", "t", "o",
    "t", "a", "l", " ", "i", "s", " ", "d", "u", "e", " ", "o", "n", " ", "r", "e", "c",
    "e", "i", "p", "t", ".", " ", "P", "a", "y", " ", "n", "o", "w", ".", "\n", "\n", "=",
    "=", "=", " ", "P", "D", "F", " ", "P", "A", "G", "E", " ", "2", " ", "o", "f", " ",
    "2", " ", "=", "=", "=", "\n", "T", "h", "a", "n", "k", " ", "y", "o", "u", ".">>

\* "=== PAGE 1 of 3 ===\nThe quick brown fox jumps over the lazy dog. It ran away.\n\n=== PAGE 3 of 3 ===\nThe end."
TEXT_PRE_PAGES ==
    <<"=", "=", "=", " ", "P", "A", "G", "E", " ", "1", " ", "o", "f", " ", "3", " ", "=",
    "=", "=", "\n", "T", "h", "e", " ", "q", "u", "i", "c", "k", " ", "b", "r", "o", "w",
    "n", " ", "f", "o", "x", " ", "j", "u", "m", "p", "s", " ", "o", "v", "e", "r", " ",
    "t", "h", "e", " ", "l", "a", "z", "y", " ", "d", "o", "g", ".", " ", "I", "t", " ",
    "r", "a", "n", " ", "a", "w", "a", "y", ".", "\n", "\n", "=", "=", "=", " ", "P", "A",
    "G", "E", " ", "3", " ", "o", "f", " ", "3", " ", "=", "=", "=", "\n", "T", "h", "e",
    " ", "e", "n", "d", ".">>

\* no function is being applied
noCalls == [op |-> "none"]

\* a file: its type, its size in bytes, its decoded text, and what the client-side
\* extraction of uploadFiles sends along (text, page count)
File(file_type, file_size, text, preExtractedText, page_count) ==
    [file_type |-> file_type, file_size |-> file_size, text |-> text,
     preExtractedText |-> preExtractedText, page_count |-> page_count]

\* uploadFiles for the files: the rows are inserted as pending and the
\* invocation of process-document of each is in flight
Uploaded(files, answers) ==
    /\ now = 0
    /\ sources = [d \in DOMAIN files |->
                     newSource(files[d].file_type, files[d].file_size, files[d].page_count)]
    /\ source_chunks = {}
    /\ storage = [d \in DOMAIN files |-> files[d].text]
    /\ aiTexts = answers
    /\ ai_usage_logs = << >>
    /\ \E order \in [1..Cardinality(DOMAIN files) -> DOMAIN files] :
         /\ \A a, b \in DOMAIN order : a # b => order[a] # order[b]
         /\ \A a, b \in DOMAIN order : a < b => order[a] \in {"d1"} \/ order[b] \notin {"d1"}
         /\ jobs = [j \in JobIds |->
                       IF j \in DOMAIN order
                       THEN [idleJob EXCEPT !.pc = "select", !.sourceId = order[j],
                                 !.preExtractedText = files[order[j]].preExtractedText]
                       ELSE idleJob]
    /\ sweeps = [s \in SweepIds |-> idleSweep]
    /\ clicked = {}
    /\ picked = << >>
    /\ calls = noCalls

\* "The committee reviewed the quarterly figures in detail and found no material discrepancy in them. "
SENTENCE ==
    <<"T", "h", "e", " ", "c", "o", "m", "m", "i", "t", "t", "e", "e", " ", "r", "e", "v",
    "i", "e", "w", "e", "d", " ", "t", "h", "e", " ", "q", "u", "a", "r", "t", "e", "r",
    "l", "y", " ", "f", "i", "g", "u", "r", "e", "s", " ", "i", "n", " ", "d", "e", "t",
    "a", "i", "l", " ", "a", "n", "d", " ", "f", "o", "u", "n", "d", " ", "n", "o", " ",
    "m", "a", "t", "e", "r", "i", "a", "l", " ", "d", "i", "s", "c", "r", "e", "p", "a",
    "n", "c", "y", " ", "i", "n", " ", "t", "h", "e", "m", ".", " ">>

RECURSIVE repeat(_, _)
repeat(s, n) ==
    IF n = 0 THEN << >>
    ELSE IF n % 2 = 0 THEN LET half == repeat(s, n \div 2) IN half \o half
    ELSE s \o repeat(s, n - 1)

LongRepeats == 25
\* LongRepeats copies of SENTENCE: more than one chunk
TEXT_LONG == repeat(SENTENCE, LongRepeats)

MediumRepeats == 6
\* MediumRepeats copies of SENTENCE: longer than the preview, one chunk
TEXT_MEDIUM == repeat(SENTENCE, MediumRepeats)

SMALL_PDF == 40000      \* 1 estimated page: single call
LARGE_PDF == 800000     \* 16 estimated pages: 4 batches
HUGE_PDF == 3000000     \* above the 2 MB ceiling

\* the files of the model
Files ==
    {File(TXT, Len(TEXT_REFUND), TEXT_REFUND, NoText, NullInt),
     File(TXT, Len(TEXT_LONG), TEXT_LONG, NoText, NullInt),
     File(TXT, Len(TEXT_MEDIUM), TEXT_MEDIUM, NoText, NullInt),
     File(DOCX, SMALL_PDF, NoText, NoText, NullInt),
     File(PDF, SMALL_PDF, NoText, NoText, NullInt),
     File(PDF, SMALL_PDF, NoText, TEXT_PRE_PAGES, 3),
     File(PDF, HUGE_PDF, NoText, NoText, NullInt)}

AiAnswers == {NoText, TEXT_PDF_PAGES}

\* one document is uploaded
Init ==
    \E file \in {f \in Files : Len(f.text) <= CHUNK_SIZE_TOKENS * CHARS_PER_TOKEN} :
        Uploaded([d1 |-> file], AiAnswers)

serveStep(j) ==
    \/ serve_select(j)
    \/ serve_update(j)

jobStep(j) ==
    \/ processDocumentInBackground_start(j)
    \/ processDocumentInBackground_preExtracted(j)
    \/ processDocumentInBackground_download(j)
    \/ extractPdfSingleCall(j)
    \/ extractDocxContent(j)
    \/ processDocumentInBackground_delete(j)
    \/ processDocumentInBackground_insert(j)
    \/ processDocumentInBackground_ready(j)
    \/ processDocumentInBackground_catch(j)

batchStep(j) ==
    \/ extractPdfInBatches_heartbeat(j)
    \/ extractPdfInBatches_batch(j)

Next ==
    \/ \E j \in JobIds : serveStep(j)
    \/ \E j \in JobIds : jobStep(j)
    \/ \E d \in DOMAIN sources : reprocessSource_reset(d)
    \/ \E d \in DOMAIN sources : reprocessSource_invoke(d)
    \/ \E s \in SweepIds : cleanup_select(s)
    \/ \E s \in SweepIds : cleanup_update(s)
    \/ Tick

Spec == Init /\ [][Next]_vars

----------------------------------------------------------------------------
(* Two documents uploaded together: no reprocessing *)

\* uploadFiles with two files: the second one is a plain text file
InitTwoDocs ==
    \E file \in Files :
        Uploaded([d \in DocIds |-> IF d = "d1" THEN file
                                   ELSE File(TXT, Len(TEXT_REFUND), TEXT_REFUND, NoText, NullInt)],
                 AiAnswers)

NextTwoDocs ==
    \/ \E j \in JobIds : serveStep(j)
    \/ \E j \in JobIds : jobStep(j)

SpecTwoDocs == InitTwoDocs /\ [][NextTwoDocs]_vars

----------------------------------------------------------------------------
(* Two text documents, the clock and the sweeper *)

InitSweep ==
    Uploaded([d \in DocIds |-> File(TXT, Len(TEXT_REFUND), TEXT_REFUND, NoText, NullInt)],
             AiAnswers)

textJobStep(j) ==
    \/ processDocumentInBackground_start(j)
    \/ processDocumentInBackground_download(j)
    \/ processDocumentInBackground_delete(j)
    \/ processDocumentInBackground_insert(j)
    \/ processDocumentInBackground_ready(j)
    \/ processDocumentInBackground_catch(j)

NextSweep ==
    \/ \E j \in JobIds : serveStep(j)
    \/ \E j \in JobIds : textJobStep(j)
    \/ \E s \in SweepIds : cleanup_select(s)
    \/ \E s \in SweepIds : cleanup_update(s)
    \/ Tick

SpecSweep == InitSweep /\ [][NextSweep]_vars

----------------------------------------------------------------------------
(* One large PDF: extraction in batches, the clock and the sweeper *)

\* 26 estimated pages: 6 batches
SIX_BATCH_PDF == 26 * BYTES_PER_PAGE

\* a large PDF whose client-side extraction failed, or one that comes with its
\* pre-extracted text
InitBatch ==
    \E file \in {File(PDF, LARGE_PDF, NoText, NoText, NullInt),
                  File(PDF, SIX_BATCH_PDF, NoText, NoText, NullInt),
                  File(PDF, LARGE_PDF, NoText, TEXT_PRE_PAGES, 3)} :
        Uploaded([d \in {"d1"} |-> file], {TEXT_PDF_PAGES})

batchJobStep(j) ==
    \/ processDocumentInBackground_start(j)
    \/ processDocumentInBackground_preExtracted(j)
    \/ processDocumentInBackground_download(j)
    \/ batchStep(j)
    \/ processDocumentInBackground_delete(j)
    \/ processDocumentInBackground_insert(j)
    \/ processDocumentInBackground_ready(j)
    \/ processDocumentInBackground_catch(j)

NextBatch ==
    \/ \E j \in JobIds : serveStep(j)
    \/ \E j \in JobIds : batchJobStep(j)
    \/ \E s \in SweepIds : cleanup_select(s)
    \/ \E s \in SweepIds : cleanup_update(s)
    \/ Tick

SpecBatch == InitBatch /\ [][NextBatch]_vars

----------------------------------------------------------------------------
(* One text document whose job can die, with the sweeper invoked again and again *)

InitLive ==
    Uploaded([d \in {"d1"} |-> File(TXT, Len(TEXT_REFUND), TEXT_REFUND, NoText, NullInt)],
             AiAnswers)

\* fetchSources invokes cleanup-stuck-documents on every fetch: a finished pass
\* is followed by another
fetchSources_cleanup(s) ==
    /\ sweeps[s].pc = "done"
    /\ sweeps' = [sweeps EXCEPT ![s] = idleSweep]
    /\ UNCHANGED <<now, sources, source_chunks, storage, aiTexts, jobs, clicked, picked, calls,
                 ai_usage_logs>>

\* Date.now() goes on while a pending or processing document is not yet past
\* the threshold
TickLive ==
    /\ \/ now < MaxTicks * TickMs
       \/ \E d \in DOMAIN sources :
            /\ sources[d].status \in {"pending", "processing"}
            /\ startTimeOf(sources[d]) >= thresholdTime
    /\ now' = now + TickMs
    /\ UNCHANGED <<sources, source_chunks, storage, aiTexts, jobs, sweeps, clicked, picked, calls,
                 ai_usage_logs>>

NextLive ==
    \/ \E j \in JobIds : serveStep(j)
    \/ \E j \in JobIds : textJobStep(j)
    \/ \E j \in JobIds : EdgeRuntime_shutdown(j)
    \/ \E s \in SweepIds : cleanup_select(s)
    \/ \E s \in SweepIds : cleanup_update(s)
    \/ \E s \in SweepIds : fetchSources_cleanup(s)
    \/ TickLive

\* time passes, and the sweeper is invoked repeatedly and runs to its end
FairnessLive ==
    /\ WF_vars(TickLive)
    /\ \A s \in SweepIds : WF_vars(cleanup_select(s))
    /\ \A s \in SweepIds : WF_vars(cleanup_update(s))
    /\ \A s \in SweepIds : WF_vars(fetchSources_cleanup(s))

SpecLive == InitLive /\ [][NextLive]_vars /\ FairnessLive

----------------------------------------------------------------------------
(* uploadFiles over a FileList, and a request that carries no sourceId *)

EXE == <<"e", "x", "e">>
validTypes == {PDF, DOCX, DOC, TXT}
MAX_UPLOAD_BYTES == 50 * 1024 * 1024
OVERSIZED == 60000000   \* above the 50 MB limit of uploadFiles
MaxPicked == 2

invalidTypeToast == "Invalid file type"
tooLargeToast == "File too large"

\* the files the user may pick; a PDF without pre-extracted text is one whose
\* client-side extraction failed
Candidates ==
    {File(TXT, Len(TEXT_REFUND), TEXT_REFUND, NoText, NullInt),
     File(EXE, SMALL_PDF, NoText, NoText, NullInt),
     File(PDF, OVERSIZED, NoText, NoText, NullInt),
     File(PDF, HUGE_PDF, NoText, NoText, NullInt),
     File(PDF, HUGE_PDF, NoText, TEXT_PRE_PAGES, 3)}

InitUpload ==
    /\ now = 0
    /\ sources = [d \in {} |-> NULL]
    /\ source_chunks = {}
    /\ storage = [d \in {} |-> NoText]
    /\ aiTexts = AiAnswers
    /\ ai_usage_logs = << >>
    /\ jobs = [j \in JobIds |-> idleJob]
    /\ sweeps = [s \in SweepIds |-> idleSweep]
    /\ clicked = {}
    /\ \E n \in 1..MaxPicked : picked \in [1..n -> Candidates]
    /\ calls = [op |-> "uploadFiles", toasts |-> << >>]

\* the id the database generates for the inserted row
newId == IF "d1" \notin DOMAIN sources THEN "d1" ELSE "d2"

\* uploadFiles: one turn of the loop over the files
uploadFiles_file ==
    /\ picked # << >>
    /\ picked' = Tail(picked)
    /\ LET file == Head(picked)
           toast(message) ==
               /\ calls' = [calls EXCEPT !.toasts = Append(@, message)]
               /\ UNCHANGED <<sources, storage, jobs>>
       IN IF file.file_type \notin validTypes THEN toast(invalidTypeToast)
          ELSE IF file.file_size > MAX_UPLOAD_BYTES THEN toast(tooLargeToast)
          ELSE /\ sources' = sources @@
                       (newId :> newSource(file.file_type, file.file_size, file.page_count))
               /\ storage' = storage @@ (newId :> file.text)
               /\ jobs' = invoke(newId, file.preExtractedText)
               /\ calls' = calls
    /\ UNCHANGED <<now, source_chunks, aiTexts, sweeps, clicked, ai_usage_logs>>

\* a POST to process-document whose body has no sourceId
serve_request_withoutSourceId ==
    /\ Cardinality(freeJobs) > Len(picked)
    /\ \A j \in JobIds : jobs[j].sourceId = NULL => jobs[j].pc = "idle"
    /\ jobs' = invoke(NULL, NoText)
    /\ UNCHANGED <<now, sources, source_chunks, storage, aiTexts, sweeps, clicked, picked, calls,
                 ai_usage_logs>>

uploadJobStep(j) ==
    \/ processDocumentInBackground_start(j)
    \/ processDocumentInBackground_preExtracted(j)
    \/ processDocumentInBackground_download(j)
    \/ processDocumentInBackground_delete(j)
    \/ processDocumentInBackground_insert(j)
    \/ processDocumentInBackground_ready(j)
    \/ processDocumentInBackground_catch(j)

NextUpload ==
    \/ uploadFiles_file
    \/ serve_request_withoutSourceId
    \/ \E j \in JobIds : serveStep(j)
    \/ \E j \in JobIds : uploadJobStep(j)

SpecUpload == InitUpload /\ [][NextUpload]_vars

----------------------------------------------------------------------------
(* One AI call: fetchWithRetry, then the caller's handleAiError *)

\* nothing uploaded, nothing running
noDocuments ==
    /\ now = 0
    /\ sources = [d \in {} |-> NULL]
    /\ source_chunks = {}
    /\ storage = [d \in {} |-> NoText]
    /\ aiTexts = AiAnswers
    /\ ai_usage_logs = << >>
    /\ jobs = [j \in JobIds |-> idleJob]
    /\ sweeps = [s \in SweepIds |-> idleSweep]
    /\ clicked = {}
    /\ picked = << >>

noFetched ==
    [throws |-> FALSE, status |-> NullInt, message |-> NULL, attempts |-> 0,
     waits |-> << >>, thrownAt |-> NullInt]

\* the gateway's behaviour on the attempts of the call is drawn from Scripts
InitFetch ==
    /\ noDocuments
    /\ \E script \in Scripts :
         calls = [op |-> "fetchWithRetry", script |-> script, fetched |-> noFetched,
                  thrown |-> NULL]

\* const response = await fetchWithRetry(url, options, MAX_RETRIES)
aiCall_fetchWithRetry ==
    /\ calls.op = "fetchWithRetry"
    /\ calls' = [calls EXCEPT !.op = "handleAiError",
                              !.fetched = fetchWithRetry(calls.script, MAX_RETRIES)]
    /\ UNCHANGED <<now, sources, source_chunks, storage, aiTexts, jobs, sweeps, clicked, picked,
                 ai_usage_logs>>

\* if (!response.ok) await handleAiError(response): the Error the call ends with,
\* NULL when it returns text
aiCall_handleAiError ==
    /\ calls.op = "handleAiError"
    /\ calls' = [calls EXCEPT !.op = "returned",
                              !.thrown = aiCall(calls.fetched, TEXT_PDF_PAGES).message]
    /\ UNCHANGED <<now, sources, source_chunks, storage, aiTexts, jobs, sweeps, clicked, picked,
                 ai_usage_logs>>

NextFetch ==
    \/ aiCall_fetchWithRetry
    \/ aiCall_handleAiError

SpecFetch == InitFetch /\ [][NextFetch]_vars

----------------------------------------------------------------------------
(* The chunker applied to an extracted text *)

MaxSentences == 3
LongWords == 283
MarkerWords == 64

\* "lorem "
WORD == <<"l", "o", "r", "e", "m", " ">>
\* "Pay now.\n"
SHORT_SENTENCE == <<"P", "a", "y", " ", "n", "o", "w", ".", "\n">>
\* "Tlorem lorem ... lorem .\n": one sentence of 6 * LongWords + 2 characters
LONG_SENTENCE == <<"T">> \o repeat(WORD, LongWords) \o <<".", "\n">>
\* "=== PAGE 2 of 3 ===\nlorem ... lorem .\n": the text of a page the client extracted
PAGE_SENTENCE ==
    PAGE_PREFIX \o <<"2">> \o OF_INFIX \o <<"3">> \o MARKER_SUFFIX \o <<"\n">>
        \o repeat(WORD, MarkerWords) \o <<".", "\n">>
\* "=== PDF PAGE 1 of 3 ===\nlorem ... lorem .\n": the text of a page the AI extracted
PDF_PAGE_SENTENCE ==
    PDF_PAGE_PREFIX \o <<"1">> \o OF_INFIX \o <<"3">> \o MARKER_SUFFIX \o <<"\n">>
        \o repeat(WORD, MarkerWords) \o <<".", "\n">>

Fragments == {SHORT_SENTENCE, SENTENCE, LONG_SENTENCE, PAGE_SENTENCE, PDF_PAGE_SENTENCE}

RECURSIVE concat(_)
concat(ss) == IF ss = << >> THEN << >> ELSE ss[1] \o concat(Tail(ss))

\* the extracted texts: up to MaxSentences fragments one after the other
Texts == {concat(ss) : ss \in UNION {[1..n -> Fragments] : n \in 1..MaxSentences}}

InitChunk ==
    /\ noDocuments
    /\ \E text \in Texts :
         calls = [op |-> "splitIntoSentences", text |-> text, sentences |-> << >>,
                  chunks |-> << >>]

\* const sentences = splitIntoSentences(text)
chunker_splitIntoSentences ==
    /\ calls.op = "splitIntoSentences"
    /\ calls' = [calls EXCEPT !.op = "splitIntoSmartChunks",
                              !.sentences = splitIntoSentences(calls.text)]
    /\ UNCHANGED <<now, sources, source_chunks, storage, aiTexts, jobs, sweeps, clicked, picked,
                 ai_usage_logs>>

\* const chunks = splitIntoSmartChunks(textContent)
chunker_splitIntoSmartChunks ==
    /\ calls.op = "splitIntoSmartChunks"
    /\ calls' = [calls EXCEPT !.op = "returned",
                              !.chunks = splitIntoSmartChunks(calls.text)]
    /\ UNCHANGED <<now, sources, source_chunks, storage, aiTexts, jobs, sweeps, clicked, picked,
                 ai_usage_logs>>

NextChunk ==
    \/ chunker_splitIntoSentences
    \/ chunker_splitIntoSmartChunks

SpecChunk == InitChunk /\ [][NextChunk]_vars

----------------------------------------------------------------------------
(* Two documents whose jobs have died, and several passes of the sweeper
   invoked at the same time *)

\* the invocations of cleanup-stuck-documents
PassIds == 1..(MaxSweeps + 1)

InitPasses ==
    /\ now = 0
    /\ sources = [d \in DocIds |-> newSource(TXT, Len(TEXT_REFUND), NullInt)]
    /\ source_chunks = {}
    /\ storage = [d \in DocIds |-> TEXT_REFUND]
    /\ aiTexts = AiAnswers
    /\ ai_usage_logs = << >>
    /\ \E order \in [1..Cardinality(DocIds) -> DocIds] :
         /\ \A a, b \in DOMAIN order : a # b => order[a] # order[b]
         /\ jobs = [j \in JobIds |->
                       IF j \in DOMAIN order
                       THEN [idleJob EXCEPT !.pc = "select", !.sourceId = order[j]]
                       ELSE idleJob]
    /\ sweeps = [s \in PassIds |-> idleSweep]
    /\ clicked = {}
    /\ picked = << >>
    /\ calls = noCalls

\* no pass has been invoked yet
beforePasses == \A s \in PassIds : sweeps[s].pc = "idle"

\* the handlers run, the jobs die and time passes; then the passes are
\* invoked, with no other writes while they run
NextPasses ==
    \/ beforePasses /\ \E j \in JobIds : serveStep(j)
    \/ beforePasses /\ \E j \in JobIds : EdgeRuntime_shutdown(j)
    \/ beforePasses /\ Tick
    \/ \E s \in PassIds : cleanup_select(s)
    \/ \E s \in PassIds : cleanup_update(s)

SpecPasses == InitPasses /\ [][NextPasses]_vars

----------------------------------------------------------------------------
(* chat: searchRelevantChunks over the stored chunks of two documents *)

MAX_CHUNKS == 10
MAX_CONTEXT_CHARS == 8000

\* \w of a lowercased character, and \s
isWordOrSpace(c) ==
    c \in LowerSet \/ c \in {DigitSeq[i] : i \in 1..10} \/ c = "_" \/ IsSpace(c)

\* split(/\s+/).filter(w => w.length > 2): the runs of non-whitespace
\* characters longer than two, in their order
RECURSIVE splitWords(_, _, _, _)
splitWords(s, i, word, words) ==
    IF i > Len(s)
    THEN IF Len(word) > 2 THEN Append(words, word) ELSE words
    ELSE IF IsSpace(s[i])
    THEN splitWords(s, i + 1, << >>, IF Len(word) > 2 THEN Append(words, word) ELSE words)
    ELSE splitWords(s, i + 1, Append(word, s[i]), words)

\* query.toLowerCase().replace(/[^\w\s]/g, "").split(/\s+/).filter(w => w.length > 2)
queryKeywords(query) ==
    splitWords(SelectSeq([k \in 1..Len(query) |-> toLowerCase(query[k])], isWordOrSpace),
               1, << >>, << >>)

\* String.prototype.includes of a non-empty string
includes(s, kw) ==
    \E i \in 1..(Len(s) - Len(kw) + 1) :
        s[i] = kw[1] /\ SubSeq(s, i, i + Len(kw) - 1) = kw

\* keywords.reduce((acc, kw) => acc + (contentLower.includes(kw) ? 1 : 0), 0)
chunkScore(content, keywords) ==
    LET contentLower == [k \in 1..Len(content) |-> toLowerCase(content[k])]
    IN Cardinality({k \in 1..Len(keywords) : includes(contentLower, keywords[k])})

\* variant: a sort that puts equal scores in the reverse of their order
RECURSIVE sortByScore_reversedTies(_, _)
sortByScore_reversedTies(results, score) ==
    IF score < 1 THEN << >>
    ELSE LET tied == SelectSeq(results, LAMBDA r : r.score = score)
         IN [k \in 1..Len(tied) |-> tied[Len(tied) - k + 1]]
                \o sortByScore_reversedTies(results, score - 1)

\* results.sort((a, b) => (b.score || 0) - (a.score || 0)): descending, stable
RECURSIVE sortByScore(_, _)
sortByScore(results, score) ==
    IF score < 1 THEN << >>
    ELSE SelectSeq(results, LAMBDA r : r.score = score) \o sortByScore(results, score - 1)

\* a loop that stops at the chunk count only
RECURSIVE limitChunks_countOnly(_, _, _, _)
limitChunks_countOnly(results, i, totalChars, limited) ==
    IF i > Len(results) THEN limited
    ELSE IF Len(limited) + 1 >= MAX_CHUNKS THEN Append(limited, results[i])
    ELSE limitChunks_countOnly(results, i + 1, totalChars + Len(results[i].content),
                               Append(limited, results[i]))

\* the loop over the sorted results: break before the chunk that would exceed
\* the character budget, and after the chunk that fills the count
RECURSIVE limitChunks(_, _, _, _)
limitChunks(results, i, totalChars, limited) ==
    IF i > Len(results) THEN limited
    ELSE IF totalChars + Len(results[i].content) > MAX_CONTEXT_CHARS THEN limited
    ELSE IF Len(limited) + 1 >= MAX_CHUNKS THEN Append(limited, results[i])
    ELSE limitChunks(results, i + 1, totalChars + Len(results[i].content),
                     Append(limited, results[i]))

\* .from("source_chunks").select(..).eq("source_id", id).limit(MAX_CHUNKS): no
\* ORDER BY, so the rows come in an order of the database's choosing; here by
\* chunk_index, ascending or descending
selectChunks(id, ascending) ==
    LET n == Cardinality(chunksOf(id))
        rows == [k \in 1..n |->
                    CHOOSE r \in chunksOf(id) :
                        r.chunk_index = IF ascending THEN k - 1 ELSE n - k]
    IN SubSeq(rows, 1, IF n < MAX_CHUNKS THEN n ELSE MAX_CHUNKS)

\* one chunk of the size the chunker aims at
TEXT_CHUNK == repeat(SENTENCE, (CHUNK_SIZE_TOKENS * CHARS_PER_TOKEN) \div Len(SENTENCE))

\* what a document has in the tables: its status and the contents of its chunks
\* (a document in error or being reprocessed keeps the chunks stored before)
DocStores ==
    {[status |-> "ready", contents |-> [k \in 1..(MAX_CHUNKS + 2) |-> TEXT_REFUND]],
     [status |-> "ready", contents |-> [k \in 1..5 |-> TEXT_CHUNK]],
     [status |-> "ready", contents |-> <<TEXT_HELLO, TEXT_REFUND, TEXT_MEDIUM>>],
     [status |-> "error", contents |-> <<TEXT_REFUND, TEXT_HELLO>>],
     [status |-> "processing", contents |-> <<TEXT_REFUND>>]}

\* "refund policy"
Q1 == <<"r", "e", "f", "u", "n", "d", " ", "p", "o", "l", "i", "c", "y">>
\* "Refund?"
Q2 == <<"R", "e", "f", "u", "n", "d", "?">>
\* "is it ok"
Q3 == <<"i", "s", " ", "i", "t", " ", "o", "k">>
\* "the committee figures"
Q4 == <<"t", "h", "e", " ", "c", "o", "m", "m", "i", "t", "t", "e", "e", " ", "f", "i", "g", "u", "r", "e", "s">>
\* "refund policy figures"
Q5 == <<"r", "e", "f", "u", "n", "d", " ", "p", "o", "l", "i", "c", "y", " ", "f", "i", "g", "u", "r", "e", "s">>
\* "  HELLO, world!"
Q6 == <<" ", " ", "H", "E", "L", "L", "O", ",", " ", "w", "o", "r", "l", "d", "!">>

\* the messages of the user
Queries ==
    {Q1, Q2, Q3, Q4, Q5, Q6}

\* the selection of sources sent with the message
SourceIdLists == {<< >>, <<"d1">>, <<"d1", "d2">>, <<"d2", "d1">>}

\* the row of a document that was processed to ready, then possibly
\* reprocessed: the new job still running (processing), or marked by the
\* sweeper (error), in both cases before the job deleted the chunks
storedSource(status, text) ==
    LET processed == [newSource(TXT, Len(text), NullInt) EXCEPT
                         !.status = "ready",
                         !.processing_started_at = 0,
                         !.processing_info = "Starting processing...",
                         !.content_preview = contentPreview(text, TXT),
                         !.page_count = 1]
    IN IF status = "ready" THEN processed
       ELSE IF status = "processing" THEN [processed EXCEPT !.status = "processing"]
       ELSE [processed EXCEPT !.status = "error",
                              !.error_message = timedOutMessage(15),
                              !.processing_progress = NullInt,
                              !.processing_info = NULL]

InitSearch ==
    /\ now = 0
    /\ \E store \in [DocIds -> DocStores] :
         /\ sources = [d \in DocIds |->
                          storedSource(store[d].status, concat(store[d].contents))]
         /\ source_chunks =
                UNION {{[id |-> <<d, index>>, source_id |-> d, chunk_index |-> index,
                         content |-> store[d].contents[index + 1]] :
                            index \in 0..(Len(store[d].contents) - 1)} : d \in DocIds}
         /\ storage = [d \in DocIds |-> concat(store[d].contents)]
    /\ aiTexts = AiAnswers
    /\ ai_usage_logs = << >>
    /\ jobs = [j \in JobIds |-> idleJob]
    /\ sweeps = [s \in SweepIds |-> idleSweep]
    /\ clicked = {}
    /\ picked = << >>
    /\ \E query \in Queries, sourceIds \in SourceIdLists :
         calls = [op |-> "sources", query |-> query, sourceIds |-> sourceIds,
                  keywords |-> << >>, i |-> 1, results |-> << >>, limited |-> << >>]

\* searchRelevantChunks: without a selection the ready sources are taken (in
\* the order the database returns them); no sources or no keywords: []
searchRelevantChunks_sources ==
    /\ calls.op = "sources"
    /\ \E ready \in UNION {[1..n -> {d \in DOMAIN sources : sources[d].status = "ready"}] :
                              n \in 0..MAX_CHUNKS} :
         /\ \A a, b \in DOMAIN ready : a # b => ready[a] # ready[b]
         /\ \/ Len(ready) = MAX_CHUNKS
            \/ \A d \in DOMAIN sources :
                  sources[d].status = "ready" => \E a \in DOMAIN ready : ready[a] = d
         /\ LET sourceIds == IF Len(calls.sourceIds) = 0 THEN ready ELSE calls.sourceIds
                keywords == queryKeywords(calls.query)
            IN calls' = IF Len(sourceIds) = 0 \/ Len(keywords) = 0
                        THEN [calls EXCEPT !.op = "returned", !.sourceIds = sourceIds]
                        ELSE [calls EXCEPT !.op = "chunks", !.sourceIds = sourceIds,
                                           !.keywords = keywords]
    /\ UNCHANGED <<now, sources, source_chunks, storage, aiTexts, jobs, sweeps, clicked, picked,
                 ai_usage_logs>>

\* searchRelevantChunks: one iteration of the loop over sourceIds.slice(0, 5):
\* the chunks of the source are scored and those with a score are pushed
searchRelevantChunks_chunks ==
    /\ calls.op = "chunks"
    /\ \E ascending \in BOOLEAN :
         LET chunks == selectChunks(calls.sourceIds[calls.i], ascending)
             scored == [k \in 1..Len(chunks) |->
                           [id |-> chunks[k].id, content |-> chunks[k].content,
                            chunk_index |-> chunks[k].chunk_index,
                            source_id |-> chunks[k].source_id,
                            score |-> chunkScore(chunks[k].content, calls.keywords)]]
         IN calls' = [calls EXCEPT
                         !.results = @ \o SelectSeq(scored, LAMBDA r : r.score > 0),
                         !.i = @ + 1,
                         !.op = IF calls.i + 1 > Len(calls.sourceIds) \/ calls.i + 1 > 5
                                THEN "limit" ELSE "chunks"]
    /\ UNCHANGED <<now, sources, source_chunks, storage, aiTexts, jobs, sweeps, clicked, picked,
                 ai_usage_logs>>

\* searchRelevantChunks: the sort and the loop that fills the returned list
searchRelevantChunks_limit ==
    /\ calls.op = "limit"
    /\ calls' = [calls EXCEPT
                    !.op = "returned",
                    !.limited = limitChunks(sortByScore(calls.results, Len(calls.keywords)),
                                            1, 0, << >>)]
    /\ UNCHANGED <<now, sources, source_chunks, storage, aiTexts, jobs, sweeps, clicked, picked,
                 ai_usage_logs>>

NextSearch ==
    \/ searchRelevantChunks_sources
    \/ searchRelevantChunks_chunks
    \/ searchRelevantChunks_limit

SpecSearch == InitSearch /\ [][NextSearch]_vars

----------------------------------------------------------------------------
(* extractPdfContent and the page ranges of extractPdfInBatches, for the sizes
   of PDF the job accepts *)

\* the sizes: whole multiples of the bytes of a page up to 2 MB, one byte past
\* the single-call threshold, and 2 MB itself
PdfSizes ==
    {p * BYTES_PER_PAGE : p \in 1..(TWO_MB \div BYTES_PER_PAGE)}
    \cup {SINGLE_CALL_PAGES * BYTES_PER_PAGE + 1, TWO_MB}

InitRanges ==
    /\ noDocuments
    /\ \E fileSize \in PdfSizes :
         calls = [op |-> "extractPdfContent", fileSize |-> fileSize, estimatedPages |-> 0,
                  batch |-> 0, ranges |-> << >>]

\* extractPdfContent: estimatedPages = Math.ceil(fileSize / 50000); up to 15
\* pages one call, else batches
extractPdfContent_route ==
    /\ calls.op = "extractPdfContent"
    /\ LET estimatedPages == ceilDiv(calls.fileSize, BYTES_PER_PAGE)
       IN calls' = [calls EXCEPT
                       !.estimatedPages = estimatedPages,
                       !.op = IF estimatedPages <= SINGLE_CALL_PAGES
                              THEN "extractPdfSingleCall" ELSE "extractPdfInBatches"]
    /\ UNCHANGED <<now, sources, source_chunks, storage, aiTexts, jobs, sweeps, clicked, picked,
                 ai_usage_logs>>

\* extractPdfInBatches: one turn of the loop, startPage and endPage of the batch
extractPdfInBatches_range ==
    /\ calls.op = "extractPdfInBatches"
    /\ calls' = [calls EXCEPT
                    !.ranges = Append(@, <<startPage(calls.batch),
                                           endPage(calls.batch, calls.estimatedPages)>>),
                    !.batch = @ + 1,
                    !.op = IF calls.batch + 1 < totalBatches(calls.estimatedPages)
                           THEN "extractPdfInBatches" ELSE "returned"]
    /\ UNCHANGED <<now, sources, source_chunks, storage, aiTexts, jobs, sweeps, clicked, picked,
                 ai_usage_logs>>

NextRanges ==
    \/ extractPdfContent_route
    \/ extractPdfInBatches_range

SpecRanges == InitRanges /\ [][NextRanges]_vars

----------------------------------------------------------------------------
(* The chunker's loop, sentence by sentence *)

\* "Abb...b.": one sentence of n characters
paddedSentence(n) == <<"A">> \o [k \in 1..(n - 2) |-> "b"] \o <<".">>

\* sentences around the minimum chunk length, each on a line of its own
BoundaryTexts ==
    {paddedSentence(n) \o <<"\n">> :
        n \in (MIN_CHUNK_LENGTH - 1)..(MIN_CHUNK_LENGTH + 1)}

\* the texts the loop is run on
LoopTexts == Texts \cup BoundaryTexts \cup {TEXT_REFUND, TEXT_PDF_PAGES}

InitLoop ==
    /\ noDocuments
    /\ \E text \in LoopTexts :
         calls = [op |-> "splitIntoSentences", text |-> text, sentences |-> << >>, k |-> 1,
                  closed |-> FALSE, chunks |-> << >>, currentChunk |-> << >>,
                  overlapBuffer |-> << >>, returned |-> << >>]

\* const sentences = splitIntoSentences(text); let currentChunk = ""; let overlapBuffer = ""
loop_splitIntoSentences ==
    /\ calls.op = "splitIntoSentences"
    /\ calls' = [calls EXCEPT !.op = "for", !.sentences = splitIntoSentences(calls.text)]
    /\ UNCHANGED <<now, sources, source_chunks, storage, aiTexts, jobs, sweeps, clicked, picked,
                 ai_usage_logs>>

\* one turn of for (const sentence of sentences); closed tells whether the turn
\* pushed currentChunk
loop_sentence ==
    /\ calls.op = "for"
    /\ calls.k <= Len(calls.sentences)
    /\ LET st == chunkStep([chunks |-> calls.chunks, currentChunk |-> calls.currentChunk,
                            overlapBuffer |-> calls.overlapBuffer], calls.sentences[calls.k])
       IN calls' = [calls EXCEPT !.k = @ + 1,
                                 !.closed = Len(st.chunks) > Len(calls.chunks),
                                 !.chunks = st.chunks,
                                 !.currentChunk = st.currentChunk,
                                 !.overlapBuffer = st.overlapBuffer]
    /\ UNCHANGED <<now, sources, source_chunks, storage, aiTexts, jobs, sweeps, clicked, picked,
                 ai_usage_logs>>

\* after the loop: the last chunk is pushed, the short chunks are filtered out
loop_return ==
    /\ calls.op = "for"
    /\ calls.k > Len(calls.sentences)
    /\ LET candidates == IF trim(calls.currentChunk) # << >>
                         THEN Append(calls.chunks, trim(calls.currentChunk))
                         ELSE calls.chunks
       IN calls' = [calls EXCEPT !.op = "returned", !.closed = FALSE,
                                 !.chunks = candidates,
                                 !.returned = filterChunks(candidates)]
    /\ UNCHANGED <<now, sources, source_chunks, storage, aiTexts, jobs, sweeps, clicked, picked,
                 ai_usage_logs>>

NextLoop ==
    \/ loop_splitIntoSentences
    \/ loop_sentence
    \/ loop_return

SpecLoop == InitLoop /\ [][NextLoop]_vars

----------------------------------------------------------------------------
(* Pre-extracted text: a document sent with its text, beside one sent without *)

PlainRepeats == 31
\* text of more than one estimated page without a page marker
TEXT_PRE_PLAIN == repeat(SENTENCE, PlainRepeats)

\* the files that come with pre-extracted text
PreFiles ==
    {File(PDF, SMALL_PDF, NoText, TEXT_PRE_PAGES, 3),
     File(PDF, HUGE_PDF, NoText, TEXT_PRE_PAGES, 3),
     File(PDF, SMALL_PDF, NoText, TEXT_REFUND, NullInt),
     File(PDF, SMALL_PDF, NoText, TEXT_PRE_PLAIN, NullInt)}

\* the files that are left to the server
ServerFiles ==
    {File(PDF, SMALL_PDF, NoText, NoText, NullInt),
     File(DOCX, SMALL_PDF, NoText, NoText, NullInt)}

\* d1 is sent with pre-extracted text, d2 without
InitPre ==
    \E pre \in PreFiles, other \in ServerFiles :
        Uploaded([d \in DocIds |-> IF d = "d1" THEN pre ELSE other], AiAnswers)

NextPre ==
    \/ \E j \in JobIds : serveStep(j)
    \/ \E j \in JobIds : jobStep(j)

SpecPre == InitPre /\ [][NextPre]_vars

----------------------------------------------------------------------------
(* A PDF above the server-side ceiling: upload, sweeper and reprocessing *)

\* a 3 MB PDF whose client-side extraction failed, or one that comes with its
\* pre-extracted text
InitCeiling ==
    \E file \in {File(PDF, HUGE_PDF, NoText, NoText, NullInt),
                 File(PDF, HUGE_PDF, NoText, TEXT_PRE_PAGES, 3)} :
        Uploaded([d1 |-> file], AiAnswers)

ceilingJobStep(j) ==
    \/ processDocumentInBackground_start(j)
    \/ processDocumentInBackground_preExtracted(j)
    \/ processDocumentInBackground_download(j)
    \/ processDocumentInBackground_delete(j)
    \/ processDocumentInBackground_insert(j)
    \/ processDocumentInBackground_ready(j)
    \/ processDocumentInBackground_catch(j)

NextCeiling ==
    \/ \E j \in JobIds : serveStep(j)
    \/ \E j \in JobIds : ceilingJobStep(j)
    \/ \E d \in DOMAIN sources : reprocessSource_reset(d)
    \/ \E d \in DOMAIN sources : reprocessSource_invoke(d)
    \/ \E s \in SweepIds : cleanup_select(s)
    \/ \E s \in SweepIds : cleanup_update(s)
    \/ Tick

SpecCeiling == InitCeiling /\ [][NextCeiling]_vars

----------------------------------------------------------------------------
(* One job from its invocation to its end, every awaited request answered *)

\* the largest PDF below the ceiling: 42 estimated pages, 9 batches
MAX_PDF == TWO_MB

InitTerm ==
    \E file \in {File(TXT, Len(TEXT_REFUND), TEXT_REFUND, NoText, NullInt),
                 File(DOCX, SMALL_PDF, NoText, NoText, NullInt),
                 File(PDF, SMALL_PDF, NoText, NoText, NullInt),
                 File(PDF, SMALL_PDF, NoText, TEXT_PRE_PAGES, 3),
                 File(PDF, LARGE_PDF, NoText, NoText, NullInt),
                 File(PDF, MAX_PDF, NoText, NoText, NullInt),
                 File(PDF, HUGE_PDF, NoText, NoText, NullInt)} :
        Uploaded([d \in {"d1"} |-> file], {TEXT_PDF_PAGES})

\* the steps of the job but the one that computes the chunks
jobStepBesideChunking(j) ==
    \/ processDocumentInBackground_start(j)
    \/ processDocumentInBackground_preExtracted(j)
    \/ processDocumentInBackground_download(j)
    \/ extractPdfSingleCall(j)
    \/ extractDocxContent(j)
    \/ batchStep(j)
    \/ processDocumentInBackground_insert(j)
    \/ processDocumentInBackground_ready(j)
    \/ processDocumentInBackground_catch(j)

NextTerm ==
    \/ \E j \in JobIds : serveStep(j)
    \/ \E j \in JobIds : jobStepBesideChunking(j)
    \/ \E j \in JobIds : processDocumentInBackground_delete(j)

\* every request the invocation awaits returns or fails, so its next step is
\* taken. The chunking step is enabled exactly when the job is at it (its
\* guard is the position, the rest are assignments); its weak fairness is
\* written out with that guard in the place of ENABLED.
FairnessTerm ==
    /\ \A j \in JobIds : WF_vars(serveStep(j))
    /\ \A j \in JobIds : WF_vars(jobStepBesideChunking(j))
    /\ \A j \in JobIds :
          \/ []<>(jobs[j].pc # "delete")
          \/ []<><<processDocumentInBackground_delete(j)>>_vars

SpecTerm == InitTerm /\ [][NextTerm]_vars /\ FairnessTerm

----------------------------------------------------------------------------
(* Properties *)

\* the jobs of a document
jobsOf(d) == {j \in JobIds : jobs[j].sourceId = d}

\* C1: every change of a document's status is pending->processing,
\* processing->ready, processing->error, error->pending or pending->error; a
\* document leaves error only by the reprocess action, which alone writes pending.
C1_StatusTransitions ==
    [][\A d \in DOMAIN sources :
          LET old == sources[d].status
              new == sources'[d].status
          IN old # new =>
               /\ <<old, new>> \in {<<"pending", "processing">>, <<"processing", "ready">>,
                                    <<"processing", "error">>, <<"error", "pending">>,
                                    <<"pending", "error">>}
               /\ (old = "error" \/ new = "pending") => d \in clicked' \ clicked]_vars

\* C1: the sweeper has set the document to error and a job of the document is
\* about to write ready
C1_Witness ==
    \E j \in JobIds :
        /\ jobs[j].pc = "ready"
        /\ sources[jobs[j].sourceId].status = "error"
        /\ sources[jobs[j].sourceId].error_message =
               "Processing timed out after 15 minutes. Click Reprocess to try again."

\* C2: an update of the sweeper on a document that is in ready or error by then
\* is a no-op: status, error_message and the progress fields stay as its job
\* wrote them.
C2_SweeperNoOpOnTerminal ==
    [][\A s \in SweepIds :
          (sweeps[s].pc = "marking" /\ sweeps'[s] # sweeps[s]) =>
              \A d \in DOMAIN sources :
                  sources[d].status \in {"ready", "error"} =>
                      /\ sources'[d].status = sources[d].status
                      /\ sources'[d].error_message = sources[d].error_message
                      /\ sources'[d].processing_progress = sources[d].processing_progress
                      /\ sources'[d].processing_info = sources[d].processing_info]_vars

\* C2: a pass of the sweeper still has to update a document that its job has
\* moved to ready since the selection
C2_Witness ==
    \E s \in SweepIds : \E doc \in sweeps[s].stuckDocs :
        /\ sweeps[s].pc = "marking"
        /\ sources[doc.id].status = "ready"
        /\ jobs[1].outcome = "ready"

\* C3: when a pass writes ready, the stored chunks of the document are exactly
\* the chunks the pass computed: indexes 0..n-1 without duplicates, the i-th
\* chunk at index i, and nothing else.
C3_ChunksReplaced ==
    [][\A j \in JobIds :
          (jobs[j].pc = "ready" /\ jobs'[j].pc = "done") =>
              LET stored == chunksOf(jobs[j].sourceId)
                  chunks == jobs[j].chunks
              IN /\ Cardinality(stored) = Len(chunks)
                 /\ {<<r.chunk_index, r.content>> : r \in stored}
                      = {<<k - 1, chunks[k]>> : k \in 1..Len(chunks)}]_vars

\* C4: an exception of a job's step is taken to the catch block of the job with
\* the exception's message; the catch block writes status error and that message
\* on the job's document, ends the job, and changes no other job and no other
\* document; no step of a job changes another job.
C4_FailureContained ==
    [][\A j \in JobIds :
          /\ (jobs[j].pc = "download" /\ jobs'[j].pc = "catch") =>
                 jobs'[j].errorMessage \in
                     {"Failed to download file: Object not found",
                      tooLargeMessage(jobs[j].file_size)}
          /\ (jobs[j].pc \in {"single_call", "docx_call"} /\ jobs'[j].pc = "catch") =>
                 jobs'[j].errorMessage \in
                     {"fetch failed", "Max retries exceeded",
                      "AI credits exhausted. Please add funds to continue.",
                      "AI extraction failed (400)"}
          /\ (jobs[j].pc = "catch" /\ jobs'[j] # jobs[j]) =>
                 /\ sources'[jobs[j].sourceId].status = "error"
                 /\ sources'[jobs[j].sourceId].error_message = jobs[j].errorMessage
                 /\ jobs'[j].pc = "done" /\ jobs'[j].outcome = "error"
                 /\ \A e \in DOMAIN sources \ {jobs[j].sourceId} : sources'[e] = sources[e]
          /\ jobs'[j] # jobs[j] => \A k \in JobIds \ {j} : jobs'[k] = jobs[k]]_vars

\* C4: the job of d1 failed on an oversized PDF and d1 is in error with that
\* message, while the job of d2 went on to ready
C4_Witness ==
    /\ jobs[1].outcome = "error"
    /\ sources["d1"].status = "error"
    /\ sources["d1"].error_message = tooLargeMessage(HUGE_PDF)
    /\ jobs[2].outcome = "ready"
    /\ sources["d2"].status = "ready"

\* C5: the rows of source_chunks of a document change only in a step of one of
\* its jobs that is past extraction (delete or insert), such a job never ends in
\* error, and the step that ends a job in error leaves source_chunks as it was.
C5_ErrorLeavesChunks ==
    [][/\ \A d \in DOMAIN sources :
             {r \in source_chunks' : r.source_id = d} # chunksOf(d) =>
                 \E j \in jobsOf(d) : jobs[j].pc \in {"delete", "insert"} /\ jobs'[j] # jobs[j]
       /\ \A j \in JobIds :
             jobs[j].pc \in {"delete", "insert", "ready"} =>
                 jobs'[j].pc # "catch" /\ jobs'[j].outcome # "error"
       /\ \A j \in JobIds :
             (jobs[j].outcome # "error" /\ jobs'[j].outcome = "error") =>
                 source_chunks' = source_chunks]_vars

\* C5: a reprocessing attempt ended in error on a failed download and the chunks
\* of the earlier pass are still stored
C5_Witness ==
    /\ jobs[1].outcome = "ready"
    /\ jobs[2].outcome = "error"
    /\ sources["d1"].status = "error"
    /\ sources["d1"].error_message = downloadFailedMessage
    /\ chunksOf("d1") # {}
    /\ \A r \in chunksOf("d1") : r.id[1] = 1

\* C6: in batched extraction every batch is attempted in order; the text of a
\* batch is the extractor's answer or, when the batch failed, the placeholder
\* for its page range; a failed batch never takes the job to its catch block;
\* the text handed on is the batch texts joined by blank lines.
C6_BatchFailureContained ==
    /\ [](\A j \in JobIds :
            jobs[j].estimatedPages > 0 =>
                /\ Len(jobs[j].allText) = jobs[j].batch
                /\ \A k \in 1..Len(jobs[j].allText) :
                       jobs[j].allText[k] \in
                           aiTexts \cup {errorPlaceholder(startPage(k - 1),
                                                          endPage(k - 1, jobs[j].estimatedPages))}
                /\ jobs[j].pc \in {"delete", "insert", "ready"} =>
                       /\ jobs[j].batch = totalBatches(jobs[j].estimatedPages)
                       /\ jobs[j].textContent = joinBlankLine(jobs[j].allText))
    /\ [][\A j \in JobIds :
            /\ jobs[j].pc = "batch_heartbeat" => jobs'[j].pc \in {"batch_heartbeat", "batch_call"}
            /\ (jobs[j].pc = "batch_call" /\ jobs'[j] # jobs[j]) =>
                   /\ jobs'[j].batch = jobs[j].batch + 1
                   /\ jobs'[j].pc = IF jobs'[j].batch < totalBatches(jobs[j].estimatedPages)
                                    THEN "batch_heartbeat" ELSE "delete"]_vars

\* "[Error extracting pages 6-10]"
C6_Placeholder ==
    <<"[", "E", "r", "r", "o", "r", " ", "e", "x", "t", "r", "a", "c", "t", "i", "n", "g",
    " ", "p", "a", "g", "e", "s", " ", "6", "-", "1", "0", "]">>

\* C6: of four batches the second failed; the document is ready and its text is
\* batch 1, the placeholder for pages 6-10, batch 3 and batch 4, joined by blank lines
C6_Witness ==
    /\ sources["d1"].status = "ready"
    /\ jobs[1].outcome = "ready"
    /\ sources["d1"].content_preview =
           trim(substring0(TEXT_PDF_PAGES \o <<"\n", "\n">> \o C6_Placeholder \o <<"\n", "\n">>
                           \o TEXT_PDF_PAGES \o <<"\n", "\n">> \o TEXT_PDF_PAGES, PREVIEW_LENGTH))

\* C7: once two jobs of the same document have both finished, the stored chunks
\* of the document are those of one of the two jobs: no chunk_index is stored
\* twice and no two rows come from different jobs.
C7_LastWriterWins ==
    \A d \in DOMAIN sources :
        (Cardinality(jobsOf(d)) >= 2 /\ \A j \in jobsOf(d) : jobs[j].pc = "done") =>
            /\ \A r1, r2 \in chunksOf(d) : r1.chunk_index = r2.chunk_index => r1 = r2
            /\ \E j \in jobsOf(d) : \A r \in chunksOf(d) : r.id[1] = j

\* C8: a sweeper pass selects exactly the documents in pending or processing
\* whose processing_started_at (updated_at when it is not set) is more than 10
\* minutes old, and changes no row by selecting; each selected document is set
\* to error with the message of the rounded elapsed minutes and with
\* processing_progress and processing_info cleared; no other row is changed.
C8_SweeperPass ==
    [][\A s \in SweepIds :
          LET stamp(row) == IF row.processing_started_at # NullInt
                            THEN row.processing_started_at ELSE row.updated_at
          IN /\ (sweeps[s].pc = "idle" /\ sweeps'[s].pc # "idle") =>
                    /\ {doc.id : doc \in sweeps'[s].stuckDocs}
                         = {d \in DOMAIN sources :
                               /\ sources[d].status \in {"pending", "processing"}
                               /\ now - stamp(sources[d]) > 10 * 60 * 1000}
                    /\ \A doc \in sweeps'[s].stuckDocs : doc.startTime = stamp(sources[doc.id])
                    /\ sources' = sources
             /\ (sweeps[s].pc = "marking" /\ sweeps'[s] # sweeps[s]) =>
                    \E doc \in sweeps[s].stuckDocs :
                        /\ sweeps'[s].stuckDocs = sweeps[s].stuckDocs \ {doc}
                        /\ sources'[doc.id].status = "error"
                        /\ sources'[doc.id].error_message =
                               "Processing timed out after "
                               \o ToString(roundDiv(now - doc.startTime, 60000))
                               \o " minutes. Click Reprocess to try again."
                        /\ sources'[doc.id].processing_progress = NullInt
                        /\ sources'[doc.id].processing_info = NULL
                        /\ \A e \in DOMAIN sources \ {doc.id} : sources'[e] = sources[e]]_vars

\* C8: d1 started processing 15 minutes ago and the sweeper set it to error with
\* a message of 15 minutes; d2 started 7.5 minutes ago and is still processing
C8_Witness ==
    /\ now = 900000
    /\ sources["d1"].processing_started_at = 0
    /\ sources["d1"].status = "error"
    /\ sources["d1"].error_message =
           "Processing timed out after 15 minutes. Click Reprocess to try again."
    /\ sources["d1"].processing_progress = NullInt
    /\ sources["d1"].processing_info = NULL
    /\ sources["d2"].processing_started_at = 450000
    /\ sources["d2"].status = "processing"
    /\ \A s \in SweepIds : sweeps[s].pc # "marking"
    /\ sweeps[1].pc = "done"

\* C9: the sweeper does not set to error a processing document whose job is
\* running in the batch loop and wrote its heartbeat (updated_at) within the
\* last 10 minutes.
C9_HeartbeatKeepsAlive ==
    [][\A d \in DOMAIN sources :
          (/\ sources[d].status = "processing"
           /\ now - sources[d].updated_at <= 10 * 60 * 1000
           /\ \E j \in jobsOf(d) : jobs[j].pc = "batch_call" \/
                                   (jobs[j].pc = "batch_heartbeat" /\ jobs[j].batch > 0))
          => sources'[d].status # "error"]_vars

\* C10: a document in pending or processing eventually is in ready or error,
\* and the step in which a job dies changes no row.
C10_DeadJobSwept ==
    /\ \A d \in DocIds :
          (d \in DOMAIN sources /\ sources[d].status \in {"pending", "processing"})
              ~> (d \in DOMAIN sources /\ sources[d].status \in {"ready", "error"})
    /\ [][\A j \in JobIds :
            (jobs[j].outcome # "dead" /\ jobs'[j].outcome = "dead") =>
                sources' = sources /\ source_chunks' = source_chunks]_vars

\* C10: the job died while the document was processing and the sweeper has set
\* the document to error
C10_Witness ==
    /\ jobs[1].outcome = "dead"
    /\ sources["d1"].status = "error"
    /\ sources["d1"].error_message =
           "Processing timed out after 15 minutes. Click Reprocess to try again."

\* C11: the handler of an accepted trigger writes status processing with
\* processing_started_at stamped, processing_progress 0 and error_message
\* cleared, and in that step schedules the job and answers "Document processing
\* started"; before that write the job has extracted nothing, written no chunk
\* and no terminal status; the answer never changes afterwards, whatever the
\* job does, and the job ends only in the document row.
C11_AcknowledgedBeforeWork ==
    /\ [](\A j \in JobIds :
            /\ jobs[j].pc \in {"idle", "select", "update"} =>
                   /\ jobs[j].response = noResponse
                   /\ jobs[j].textContent = NoText
                   /\ jobs[j].chunks = << >>
                   /\ jobs[j].outcome = NULL
                   /\ \A r \in source_chunks : r.id[1] # j
            /\ (jobs[j].pc \in BackgroundPcs \/ jobs[j].outcome \in {"ready", "error", "dead"})
                   => jobs[j].response = processingStarted)
    /\ [][\A j \in JobIds :
            /\ (jobs[j].pc = "update" /\ jobs'[j].pc # "update") =>
                   /\ jobs'[j].pc = "start"
                   /\ jobs'[j].response = processingStarted
                   /\ sources'[jobs[j].sourceId].status = "processing"
                   /\ sources'[jobs[j].sourceId].processing_started_at = now
                   /\ sources'[jobs[j].sourceId].processing_progress = 0
                   /\ sources'[jobs[j].sourceId].error_message = NULL
                   /\ source_chunks' = source_chunks
            /\ jobs[j].response # noResponse => jobs'[j].response = jobs[j].response]_vars

\* C11: the trigger was acknowledged with "Document processing started" and its
\* job ended in error afterwards: the row tells, the answer does not
C11_Witness ==
    \E j \in JobIds :
        /\ jobs[j].response = processingStarted
        /\ jobs[j].outcome = "error"
        /\ sources[jobs[j].sourceId].status = "error"
        /\ sources[jobs[j].sourceId].processing_started_at = 0

\* C12: a request without sourceId is answered 400 and never gets past the
\* handler's check; a file of an unsupported type or above 50 MB gets no row; and
\* a PDF above the 2 MB ceiling of the AI extraction (sent without pre-extracted
\* text) is never in processing or ready and has no background job running.
C12_RejectedNeverStarted ==
    /\ \A j \in JobIds :
          (jobs[j].sourceId = NULL /\ jobs[j].pc # "idle") =>
              /\ jobs[j].pc \in {"select", "done"}
              /\ jobs[j].pc = "done" =>
                     jobs[j].outcome = "rejected" /\ jobs[j].response = sourceIdRequired
    /\ \A d \in DOMAIN sources :
          /\ sources[d].file_type \in validTypes
          /\ sources[d].file_size <= MAX_UPLOAD_BYTES
          /\ (/\ sources[d].file_type = PDF
              /\ sources[d].file_size > TWO_MB
              /\ sources[d].page_count = NullInt)
             => /\ sources[d].status \notin {"processing", "ready"}
                /\ \A j \in jobsOf(d) : jobs[j].pc \notin BackgroundPcs

\* a status after which fetchWithRetry goes on to the next attempt
retried(status) == status = NetworkError \/ status >= 500 \/ status = 429

\* C13: fetchWithRetry makes at most 3 attempts; it returns the first response
\* that is a success or a 4xx other than 429, without a further attempt; after
\* a 5xx, a 429 or a network exception it tries again while attempts remain;
\* and the wait that follows attempt k is 1000 * 2^k ms.
C13_RetryPolicy ==
    calls.op \in {"handleAiError", "returned"} =>
        LET r == calls.fetched
            n == r.attempts
        IN /\ n \in 1..MAX_RETRIES
           /\ \A k \in 1..(n - 1) : retried(calls.script[k])
           /\ r.throws <=> \A k \in 1..MAX_RETRIES : retried(calls.script[k])
           /\ r.throws => n = MAX_RETRIES
           /\ ~r.throws => ~retried(calls.script[n]) /\ r.status = calls.script[n]
           /\ Len(r.waits) >= n - 1
           /\ \A k \in 0..(Len(r.waits) - 1) : r.waits[k + 1] = 1000 * (2 ^ k)

\* C13: a 500, then a network exception, then a success: three attempts, waits
\* of 1000 and 2000 ms, and the third response is returned
C13_Witness ==
    /\ calls.op = "returned"
    /\ calls.script = <<500, NetworkError, 200>>
    /\ calls.fetched.attempts = 3
    /\ calls.fetched.waits = <<1000, 2000>>
    /\ ~calls.fetched.throws
    /\ calls.fetched.status = 200

\* C14: when the three attempts are used up, fetchWithRetry throws the failure
\* of the last attempt: its network exception, or an error that carries the 5xx
\* or 429 status of its response; never the exception of an earlier attempt and
\* never an error without the upstream status.
C14_OriginalFailurePropagates ==
    (calls.op \in {"handleAiError", "returned"} /\ calls.fetched.throws) =>
        LET r == calls.fetched
            last == calls.script[MAX_RETRIES]
        IN IF last = NetworkError
           THEN r.message = FETCH_FAILED /\ r.thrownAt = MAX_RETRIES - 1
           ELSE r.status = last /\ r.thrownAt = NullInt /\ r.message # MAX_RETRIES_EXCEEDED

\* C15: a failed AI call ends with the rate-limit error when the gateway keeps
\* answering 429, with the credits-exhausted error when it answers 402, and with
\* the generic "AI extraction failed" error for every other failure.
C15_DistinguishedErrors ==
    (calls.op = "returned" /\ calls.thrown # NULL) =>
        LET n == calls.fetched.attempts
            last == calls.script[n]
        IN IF last = 429 THEN calls.thrown = handleAiError(429)
           ELSE IF last = 402 THEN calls.thrown = handleAiError(402)
           ELSE /\ calls.thrown \notin {handleAiError(429), handleAiError(402)}
                /\ \E status \in Statuses : calls.thrown = handleAiError(status)

\* sentence is in chunk as it stands, starting at the chunk's start or after a blank
occursIn(sentence, chunk) ==
    \E i \in 1..(Len(chunk) - Len(sentence) + 1) :
        /\ chunk[i] = sentence[1]
        /\ i = 1 \/ chunk[i - 1] = " "
        /\ SubSeq(chunk, i, i + Len(sentence) - 1) = sentence

\* the sentences of the text that are not blank, trimmed
sentencesOf(sentences) ==
    SelectSeq([k \in 1..Len(sentences) |-> trim(sentences[k])], LAMBDA t : t # << >>)

\* C16: every chunk of splitIntoSmartChunks(T) has at most 2000 characters,
\* unless it holds a sentence that alone has more than 2000 characters.
C16_ChunkSizeBound ==
    calls.op = "returned" =>
        \A c \in 1..Len(calls.chunks) :
            Len(calls.chunks[c]) > CHUNK_SIZE_TOKENS * CHARS_PER_TOKEN =>
                \E k \in 1..Len(calls.sentences) :
                    /\ Len(trim(calls.sentences[k])) > CHUNK_SIZE_TOKENS * CHARS_PER_TOKEN
                    /\ occursIn(trim(calls.sentences[k]), calls.chunks[c])

\* C17: every non-empty sentence of T occurs in a chunk, and the chunks hold
\* the sentences in T's order: the chunk in which a sentence occurs first does
\* not come before the chunk in which the sentence before it occurs first.
C17_SentencesReconstructed ==
    calls.op = "returned" =>
        LET ss == sentencesOf(calls.sentences)
            holders(k) == {c \in 1..Len(calls.chunks) : occursIn(ss[k], calls.chunks[c])}
        IN /\ \A k \in 1..Len(ss) : holders(k) # {}
           /\ \A k \in 2..Len(ss) : Min(holders(k - 1)) <= Min(holders(k))

\* the page markers of s in either format, as <<start, end, total>>
markersOf(s) ==
    ({markerAt(s, PAGE_PREFIX, i) : i \in 1..Len(s)}
        \cup {markerAt(s, PDF_PAGE_PREFIX, i) : i \in 1..Len(s)}) \ {<< >>}

\* C18: every page marker of T, in either format, is in some chunk character
\* for character, and every "===" of a chunk is the opening or the closing of
\* a whole marker of that chunk: no chunk holds a piece of a marker.
C18_MarkersUnmangled ==
    calls.op = "returned" =>
        /\ \A m \in markersOf(calls.text) :
              \E c \in 1..Len(calls.chunks) :
                  occursIn(SubSeq(calls.text, m[1], m[2]), calls.chunks[c])
        /\ \A c \in 1..Len(calls.chunks) :
              LET chunk == calls.chunks[c]
                  whole == markersOf(chunk)
              IN \A i \in 1..(Len(chunk) - 2) :
                    SubSeq(chunk, i, i + 2) = <<"=", "=", "=">> =>
                        \E m \in whole : i = m[1] \/ i + 2 = m[2]

\* "[<FILE_TYPE> document]"
placeholderOf(file_type) ==
    <<"[">> \o [k \in 1..Len(file_type) |-> toUpperCase(file_type[k])]
        \o <<" ", "d", "o", "c", "u", "m", "e", "n", "t", "]">>

\* C20: a job whose extracted text is empty removes the document's chunks,
\* inserts none, does not fail, and writes status ready with content_preview
\* "[<FILE_TYPE> document]".
C20_EmptyTextReady ==
    /\ [](\A j \in JobIds : jobs[j].pc = "insert" => jobs[j].textContent # NoText)
    /\ [][\A j \in JobIds :
            LET d == jobs[j].sourceId
            IN /\ (/\ jobs[j].pc = "delete"
                   /\ jobs[j].textContent = NoText
                   /\ jobs'[j].pc # "delete")
                  => /\ jobs'[j].pc = "ready"
                     /\ jobs'[j].chunks = << >>
                     /\ {r \in source_chunks' : r.source_id = d} = {}
               /\ (/\ jobs[j].pc = "ready"
                   /\ jobs[j].textContent = NoText
                   /\ jobs'[j].pc # "ready")
                  => /\ jobs'[j].outcome = "ready"
                     /\ sources'[d].status = "ready"
                     /\ sources'[d].error_message = NULL
                     /\ sources'[d].content_preview = placeholderOf(sources[d].file_type)
                     /\ source_chunks' = source_chunks
                     /\ \A r \in source_chunks : r.id[1] # j]_vars

\* C20: a PDF was processed a second time, the AI answered with an empty text,
\* and the document is ready with the preview "[PDF document]" and no chunks
C20_Witness ==
    /\ jobs[1].outcome = "ready"
    /\ jobs[2].outcome = "ready"
    /\ sources["d1"].status = "ready"
    /\ sources["d1"].content_preview =
           <<"[", "P", "D", "F", " ", "d", "o", "c", "u", "m", "e", "n", "t", "]">>
    /\ chunksOf("d1") = {}

\* C19: when a text document is processed again with the same text, the table
\* holds for it, at the moment the second pass writes ready, the chunk_index
\* values and contents it held when the first pass wrote ready.
C19_ReprocessIdempotent ==
    [][\A j, k \in JobIds :
          (/\ j # k
           /\ jobs[k].outcome = "ready"
           /\ jobs[k].sourceId = jobs[j].sourceId
           /\ jobs[j].pc = "ready"
           /\ jobs'[j].outcome = "ready"
           /\ sources[jobs[j].sourceId].file_type = TXT)
          => {<<r.chunk_index, r.content>> :
                  r \in {x \in source_chunks' : x.source_id = jobs[j].sourceId}}
                 = jobs[k].stored]_vars

\* C21: the write that moves a document to ready sets error_message to null,
\* page_count to the job's page count and content_preview to the first 500
\* characters of the extracted text, trimmed, or to "[<FILE_TYPE> document]"
\* when that is empty; a document in ready has no error_message.
C21_ReadyWrite ==
    /\ [](\A d \in DOMAIN sources :
            sources[d].status = "ready" => sources[d].error_message = NULL)
    /\ [][\A j \in JobIds :
            (jobs[j].pc = "ready" /\ jobs'[j].pc # "ready") =>
                LET d == jobs[j].sourceId
                    text == jobs[j].textContent
                    lead == trim(SubSeq(text, 1, IF Len(text) < 500 THEN Len(text) ELSE 500))
                IN /\ sources'[d].status = "ready"
                   /\ sources'[d].error_message = NULL
                   /\ sources'[d].page_count = jobs[j].pageCount
                   /\ sources'[d].content_preview =
                          IF lead # << >> THEN lead
                          ELSE placeholderOf(sources[d].file_type)]_vars

\* C21: a text document of more than 500 characters that was in error was
\* reprocessed and is ready, with the start of its text as preview and no
\* error_message
C21_Witness ==
    /\ jobs[2].outcome = "ready"
    /\ sources["d1"].status = "ready"
    /\ sources["d1"].error_message = NULL
    /\ Len(storage["d1"]) > 500
    /\ sources["d1"].content_preview = trim(SubSeq(storage["d1"], 1, 500))
    /\ sources["d1"].page_count = 1

\* C22: every value a job writes to processing_progress is an integer in
\* 0..100 and not below the value in the row: 0 by the handler, 50 after taking
\* pre-extracted text, and before batch i of n the integer nearest to 80 * i / n
\* (at most 80); the other steps of a job, its terminal write included, leave
\* the value as it is.
C22_ProgressMonotonic ==
    [][\A j \in JobIds :
          jobs'[j] # jobs[j] /\ jobs[j].sourceId \in DOMAIN sources =>
              LET d == jobs[j].sourceId
                  old == sources[d].processing_progress
                  new == sources'[d].processing_progress
                  i == jobs[j].batch
                  P == jobs[j].estimatedPages
              IN /\ new \in 0..100 \/ new = old
                 /\ new >= old
                 /\ jobs[j].pc = "update" => new = 0
                 /\ jobs[j].pc = "pre_update" => new = 50
                 /\ jobs[j].pc = "batch_heartbeat" =>
                        /\ new <= 80
                        /\ \E n \in 1..P :
                              /\ PAGES_PER_BATCH * n >= P /\ PAGES_PER_BATCH * (n - 1) < P
                              /\ 2 * (80 * i - new * n) <= n
                              /\ 2 * (new * n - 80 * i) < n
                 /\ jobs[j].pc \notin {"update", "pre_update", "batch_heartbeat"} => new = old]_vars

\* C22: the job of a 26-page PDF is in its sixth batch and the row shows 67,
\* the integer nearest to 80 * 5 / 6
C22_Witness ==
    \E j \in JobIds :
        /\ jobs[j].pc = "batch_call"
        /\ jobs[j].batch = 5
        /\ jobs[j].estimatedPages = 26
        /\ sources[jobs[j].sourceId].processing_progress = 67

\* C23: in batched extraction the AI call of a batch is issued only by a job
\* that has just written the heartbeat of that batch: a job comes to the call of
\* a batch only by the step that writes processing_progress, processing_info
\* and updated_at (the time of the write) to its document's row, and that step
\* belongs to the same batch as the call that follows it.
C23_HeartbeatBeforeCall ==
    /\ [](\A j \in JobIds : jobs[j].pc = "batch_call" =>
              jobs[j].batch < totalBatches(jobs[j].estimatedPages))
    /\ [][\A j \in JobIds :
            jobs'[j].pc = "batch_call" /\ jobs'[j] # jobs[j] =>
                LET d == jobs[j].sourceId
                    b == jobs[j].batch
                    P == jobs[j].estimatedPages
                IN /\ jobs[j].pc = "batch_heartbeat"
                   /\ jobs'[j].batch = b
                   /\ sources'[d].updated_at = now
                   /\ sources'[d].processing_progress
                          = progressPercent(b, totalBatches(P))
                   /\ sources'[d].processing_info
                          = "Processing pages " \o ToString(startPage(b)) \o "-"
                            \o ToString(endPage(b, P)) \o " of ~" \o ToString(P) \o "..."]_vars

\* C23: the last batch of a 16-page PDF is about to be sent, after a tick of
\* the clock, and the row carries the heartbeat written at that time
C23_Witness ==
    \E j \in JobIds :
        /\ jobs[j].pc = "batch_call"
        /\ jobs[j].batch = 3
        /\ jobs[j].estimatedPages = 16
        /\ now > 0
        /\ sources[jobs[j].sourceId].updated_at = now
        /\ sources[jobs[j].sourceId].processing_info = "Processing pages 16-16 of ~16..."

\* C24: the batches of a job are processed one after another in index order:
\* a job is at one place of its loop at a time, the call of batch b is issued
\* when exactly the outcomes of batches 0..b-1 (a text or the placeholder of
\* the failed batch) have been collected, and a step moves the loop on by one
\* batch only, by the step in which the call of the current batch returns or
\* fails, appending that outcome to the ones collected before.
C24_BatchesSequential ==
    /\ [](\A j \in JobIds : jobs[j].pc \in {"batch_heartbeat", "batch_call"} =>
              /\ jobs[j].batch < totalBatches(jobs[j].estimatedPages)
              /\ Len(jobs[j].allText) = jobs[j].batch)
    /\ [][\A j \in JobIds :
            jobs[j].pc \in {"batch_heartbeat", "batch_call"} /\ jobs'[j] # jobs[j] =>
                LET b == jobs[j].batch
                    P == jobs[j].estimatedPages
                IN IF jobs[j].pc = "batch_heartbeat"
                   THEN /\ jobs'[j].pc = "batch_call"
                        /\ jobs'[j].batch = b
                        /\ jobs'[j].allText = jobs[j].allText
                   ELSE /\ jobs'[j].batch = b + 1
                        /\ Len(jobs'[j].allText) = b + 1
                        /\ SubSeq(jobs'[j].allText, 1, b) = jobs[j].allText
                        /\ \/ jobs'[j].allText[b + 1] \in aiTexts
                           \/ jobs'[j].allText[b + 1]
                                  = errorPlaceholder(startPage(b), endPage(b, P))
                        /\ jobs'[j].pc = IF b + 1 < totalBatches(P)
                                         THEN "batch_heartbeat" ELSE "delete"]_vars

\* C24: the third batch of a PDF is about to be sent after the first batch
\* failed and the second returned a text
C24_Witness ==
    \E j \in JobIds :
        /\ jobs[j].pc = "batch_call"
        /\ jobs[j].batch = 2
        /\ jobs[j].allText[1] = errorPlaceholder(1, 5)
        /\ jobs[j].allText[2] \in aiTexts

\* C25: the sweeper can be run again and at the same time as itself. A pass
\* invoked when another pass has finished, with no other write and no time in
\* between, selects nothing and changes no row; every update of a pass leaves
\* the document it selected in status error with the timed-out message and
\* with processing_progress and processing_info cleared, touches no other row,
\* and changes nothing when another pass has marked the document already; and
\* when all passes have finished no document is left stuck.
C25_SweeperIdempotent ==
    /\ [][\A s, t \in PassIds :
            (s # t /\ sweeps[t].pc = "done" /\ sweeps[s].pc = "idle"
                   /\ sweeps'[s] # sweeps[s]) =>
                sweeps'[s] = [idleSweep EXCEPT !.pc = "done"] /\ sources' = sources]_vars
    /\ [][\A s \in PassIds :
            (sweeps[s].pc = "marking" /\ sweeps'[s] # sweeps[s]) =>
                \E doc \in sweeps[s].stuckDocs :
                    /\ sweeps'[s].stuckDocs = sweeps[s].stuckDocs \ {doc}
                    /\ sweeps'[s].pc = IF sweeps'[s].stuckDocs = {} THEN "done" ELSE "marking"
                    /\ sources'[doc.id].status = "error"
                    /\ sources'[doc.id].error_message
                           = timedOutMessage(stuckMinutes(doc.startTime))
                    /\ sources'[doc.id].processing_progress = NullInt
                    /\ sources'[doc.id].processing_info = NULL
                    /\ \A d \in DOMAIN sources \ {doc.id} : sources'[d] = sources[d]
                    /\ sources[doc.id].status = "error" => sources' = sources]_vars
    /\ []((\A s \in PassIds : sweeps[s].pc = "done") =>
              \A d \in DOMAIN sources : ~isStuck(sources[d], thresholdTime))

\* C25: two passes selected the same stuck document; the first has finished
\* and marked it, the second still has it in its list
C25_Witness ==
    /\ sweeps[1].pc = "done"
    /\ sweeps[2].pc = "marking"
    /\ \E doc \in sweeps[2].stuckDocs :
          /\ sources[doc.id].status = "error"
          /\ sources[doc.id].processing_progress = NullInt
          /\ sources[doc.id].processing_info = NULL

\* the characters of the contents of a list of chunks
RECURSIVE totalChars(_)
totalChars(chunks) ==
    IF chunks = << >> THEN 0 ELSE Len(Head(chunks).content) + totalChars(Tail(chunks))

\* C26: the list searchRelevantChunks returns has at most 10 chunks, their
\* contents together have at most 8000 characters, every one of them is a
\* stored chunk whose lowercased content contains at least one keyword of the
\* query (its score is at least 1), and the list is in descending order of
\* score: a chunk with none of the keywords is not in it.
C26_ResultBounded ==
    calls.op = "returned" =>
        /\ Len(calls.limited) <= 10
        /\ totalChars(calls.limited) <= 8000
        /\ \A k \in 1..Len(calls.limited) :
              LET chunk == calls.limited[k]
                  keywords == queryKeywords(calls.query)
              IN /\ chunk.score >= 1
                 /\ \E r \in source_chunks : r.id = chunk.id /\ r.content = chunk.content
                 /\ \E n \in 1..Len(keywords) :
                       includes([c \in 1..Len(chunk.content) |->
                                    toLowerCase(chunk.content[c])], keywords[n])
        /\ \A a, b \in 1..Len(calls.limited) :
              a < b => calls.limited[a].score >= calls.limited[b].score

\* C26: five chunks of 1960 characters matched the query and four of them
\* were returned, a fifth would pass 8000 characters
C26_Witness ==
    /\ calls.op = "returned"
    /\ Len(calls.results) >= 5
    /\ Len(calls.limited) = 4
    /\ totalChars(calls.limited) = 4 * Len(TEXT_CHUNK)
    /\ totalChars(calls.limited) + Len(calls.results[5].content) > 8000

\* C27: every chunk searchRelevantChunks returns belongs to a document in
\* status ready, whether the sources were selected by the user or defaulted.
C27_ReadyChunksOnly ==
    calls.op = "returned" =>
        \A k \in 1..Len(calls.limited) :
            sources[calls.limited[k].source_id].status = "ready"

\* C28: a step of a job changes only the job itself, the sources row of its
\* document and chunks whose source_id is that document: rows and chunks of the
\* other documents, and the other jobs, stay as they are. What a job leaves on
\* its document is computed from its own data (its text, page count and
\* chunks), so the text document uploaded next to any other file ends as it
\* does alone: ready with its text as preview and its one chunk (or none, when
\* the insert was refused), or in error with the download's message.
C28_JobsIndependent ==
    /\ [][\A j \in JobIds :
            jobs'[j] # jobs[j] =>
                LET d == jobs[j].sourceId
                IN /\ \A k \in JobIds \ {j} : jobs'[k] = jobs[k]
                   /\ \A e \in DOMAIN sources \ {d} : sources'[e] = sources[e]
                   /\ \A r \in (source_chunks' \ source_chunks) \cup
                               (source_chunks \ source_chunks') : r.source_id = d
                   /\ storage' = storage
                   /\ jobs[j].pc = "ready" =>
                         /\ sources'[d].content_preview
                               = contentPreview(jobs[j].textContent, sources[d].file_type)
                         /\ sources'[d].page_count = jobs[j].pageCount
                         /\ storedChunks(d) \subseteq
                               {<<k - 1, jobs[j].chunks[k]>> : k \in 1..Len(jobs[j].chunks)}]_vars
    /\ [](\A j \in JobIds :
             jobs[j].sourceId = "d2" /\ jobs[j].pc = "done" =>
                 \/ /\ sources["d2"].status = "ready"
                    /\ sources["d2"].error_message = NULL
                    /\ sources["d2"].content_preview = TEXT_REFUND
                    /\ sources["d2"].page_count = 1
                    /\ storedChunks("d2") \in {{}, {<<0, splitIntoSmartChunks(TEXT_REFUND)[1]>>}}
                 \/ /\ sources["d2"].status = "error"
                    /\ sources["d2"].error_message = "Failed to download file: Object not found"
                    /\ sources["d2"].content_preview = NoText
                    /\ storedChunks("d2") = {})

\* C28: both jobs have finished after running side by side: the PDF with its
\* pages' chunks stored, the text document with its one chunk
C28_Witness ==
    /\ \A j \in JobIds : jobs[j].pc = "done" /\ jobs[j].outcome = "ready"
    /\ sources["d1"].file_type = PDF
    /\ Cardinality(chunksOf("d1")) >= 1
    /\ storedChunks("d2") = {<<0, splitIntoSmartChunks(TEXT_REFUND)[1]>>}
    /\ sources["d2"].status = "ready"

\* C29: every AI call of a job goes into the usage ledger: the step in which
\* a call returns or fails counts the call in the job's accumulator, a job that
\* made calls ends, ready or in error, with a row appended to ai_usage_logs
\* that carries the accumulated totals (total_tokens = prompt_tokens +
\* completion_tokens), and rows of ai_usage_logs are only ever appended.
C29_EveryCallLogged ==
    [][/\ \A j \in JobIds :
             (jobs[j].pc \in {"single_call", "docx_call", "batch_call"}
                  /\ jobs'[j] # jobs[j]) =>
                 /\ jobs'[j].usage.aiCalls = jobs[j].usage.aiCalls + 1
                 /\ jobs'[j].usage.promptTokens > jobs[j].usage.promptTokens
                 /\ jobs'[j].usage.completionTokens >= jobs[j].usage.completionTokens
       /\ \A j \in JobIds :
             (jobs[j].pc \in {"ready", "catch"} /\ jobs'[j].pc = "done"
                  /\ jobs[j].usage.aiCalls > 0) =>
                 /\ Len(ai_usage_logs') = Len(ai_usage_logs) + 1
                 /\ LET row == ai_usage_logs'[Len(ai_usage_logs')]
                    IN /\ row.source_id = jobs[j].sourceId
                       /\ row.ai_calls = jobs[j].usage.aiCalls
                       /\ row.prompt_tokens = jobs[j].usage.promptTokens
                       /\ row.completion_tokens = jobs[j].usage.completionTokens
                       /\ row.total_tokens = row.prompt_tokens + row.completion_tokens
       /\ Len(ai_usage_logs') >= Len(ai_usage_logs)
       /\ SubSeq(ai_usage_logs', 1, Len(ai_usage_logs)) = ai_usage_logs]_vars

\* C30: a PDF goes to batched extraction exactly when its estimated page count
\* P is above 15, and then the loop runs ceil(P / 5) batches whose page ranges
\* are [5b + 1, min(5b + 5, P)] for b = 0, 1, ...: none is empty, each starts
\* right after the one before it ends, and together they are the pages 1..P.
C30_PageRanges ==
    LET P == calls.estimatedPages
        ranges == calls.ranges
    IN /\ calls.op \in {"extractPdfInBatches", "returned"} => P > 15
       /\ calls.op = "extractPdfSingleCall" => P <= 15
       /\ calls.op = "returned" =>
             /\ Len(ranges) * 5 >= P /\ (Len(ranges) - 1) * 5 < P
             /\ \A k \in 1..Len(ranges) :
                   /\ ranges[k][1] = 5 * (k - 1) + 1
                   /\ ranges[k][2] = IF 5 * (k - 1) + 5 < P THEN 5 * (k - 1) + 5 ELSE P
                   /\ ranges[k][1] <= ranges[k][2]
             /\ \A k \in 1..(Len(ranges) - 1) : ranges[k + 1][1] = ranges[k][2] + 1
             /\ UNION {ranges[k][1]..ranges[k][2] : k \in 1..Len(ranges)} = 1..P
             /\ \A k, l \in 1..Len(ranges) :
                   k # l => (ranges[k][1]..ranges[k][2]) \cap (ranges[l][1]..ranges[l][2]) = {}

\* C30: a PDF of 2 MB, 42 estimated pages, went through 9 batches and the last
\* one was pages 41-42
C30_Witness ==
    /\ calls.op = "returned"
    /\ calls.fileSize = TWO_MB
    /\ calls.estimatedPages = 42
    /\ Len(calls.ranges) = 9
    /\ calls.ranges[9] = <<41, 42>>

\* s ends with t
endsWith(s, t) == Len(t) <= Len(s) /\ SubSeq(s, Len(s) - Len(t) + 1, Len(s)) = t

\* C31: when a turn of the loop closes a chunk because the sentence would
\* exceed the target size, the next chunk starts as the overlap buffer, a
\* blank and that sentence, and the overlap buffer of that moment ends the
\* chunk just closed and has at most 400 characters.
C31_OverlapCarried ==
    [][(calls.op = "for" /\ calls'.op = "for" /\ calls'.closed) =>
          LET sentence == trim(calls.sentences[calls.k])
              closedChunk == calls'.chunks[Len(calls'.chunks)]
          IN /\ Len(calls.currentChunk) + Len(sentence) > CHUNK_SIZE_TOKENS * CHARS_PER_TOKEN
             /\ calls'.currentChunk = calls.overlapBuffer \o <<" ">> \o sentence
             /\ endsWith(closedChunk, calls.overlapBuffer)
             /\ Len(calls.overlapBuffer) <= CHUNK_OVERLAP_TOKENS * CHARS_PER_TOKEN]_vars

\* a chunk was closed with a full overlap buffer of 400 characters
C31_Witness ==
    /\ calls.op = "for"
    /\ calls.closed
    /\ Len(calls.chunks) = 1
    /\ Len(calls.currentChunk) > CHUNK_OVERLAP_TOKENS * CHARS_PER_TOKEN
    /\ endsWith(calls.chunks[1],
                SubSeq(calls.currentChunk, 1, CHUNK_OVERLAP_TOKENS * CHARS_PER_TOKEN))

\* C32: of the candidate chunks exactly those shorter than 50 characters are
\* discarded: every returned chunk has at least 50 characters, and the
\* returned chunks are the candidates of 50 characters or more, in order.
C32_MinimumLength ==
    calls.op = "returned" =>
        /\ \A c \in 1..Len(calls.returned) : Len(calls.returned[c]) >= MIN_CHUNK_LENGTH
        /\ calls.returned = SelectSeq(calls.chunks, LAMBDA chunk : Len(chunk) >= MIN_CHUNK_LENGTH)

\* the characters of s from position i on are the sentences in order, a
\* non-empty run of whitespace between one sentence and the next, and a run
\* of whitespace (empty or not) after the last
RECURSIVE rebuilds(_, _, _)
rebuilds(s, i, sentences) ==
    IF sentences = << >> THEN i = Len(s) + 1
    ELSE LET sentence == sentences[1]
             after == i + Len(sentence)
         IN /\ after <= Len(s) + 1
            /\ SubSeq(s, i, after - 1) = sentence
            /\ \E next \in after..(Len(s) + 1) :
                  /\ \A j \in after..(next - 1) : IsSpace(s[j])
                  /\ Len(sentences) > 1 => next > after
                  /\ rebuilds(s, next, Tail(sentences))

\* t is in s character for character
isSubstring(t, s) ==
    \E i \in 1..(Len(s) - Len(t) + 1) : SubSeq(s, i, i + Len(t) - 1) = t

\* C38: splitIntoSentences changes no character: every returned sentence is
\* in the text as it stands, upper and lower case included, and the sentences
\* in order with the whitespace that was split on between them are the text.
C38_SentencesVerbatim ==
    calls.op = "for" =>
        /\ \A k \in 1..Len(calls.sentences) : isSubstring(calls.sentences[k], calls.text)
        /\ rebuilds(calls.text, 1, calls.sentences)

\* the words of the query: its lowercased letters, digits and underscores,
\* taken between the whitespace, and of them the words longer than 2 characters
keywordsOf(query) ==
    LET lower == [k \in 1..Len(query) |-> toLowerCase(query[k])]
        kept == SelectSeq(lower, LAMBDA c : IsWord(c) \/ IsSpace(c))
        starts == {i \in 1..Len(kept) : ~IsSpace(kept[i]) /\ (i = 1 \/ IsSpace(kept[i - 1]))}
        endOf(i) == Min({j \in i..Len(kept) : j = Len(kept) \/ IsSpace(kept[j + 1])})
    IN {SubSeq(kept, i, endOf(i)) : i \in {j \in starts : endOf(j) - j + 1 > 2}}

\* where the chunk is in the list (0 if nowhere)
positionIn(list, id) ==
    IF \E k \in 1..Len(list) : list[k].id = id
    THEN CHOOSE k \in 1..Len(list) : list[k].id = id ELSE 0

pageCountOf(text) ==
    LET totals == markerTotals(text, PAGE_PREFIX)
    IN IF totals # << >>
       THEN {totals[k] : k \in 1..Len(totals)}
       ELSE {Max({1, ceilDiv(Len(text), ESTIMATED_CHARS_PER_PAGE)})}

\* C34: a job that was given pre-extracted text downloads no file and makes
\* no AI call, and the page_count it writes with ready is the total of the
\* text's "=== PAGE n of total ===" markers, or for a text without marker the
\* text length over 3000 characters per page, rounded up, at least 1.
C34_PreExtracted ==
    /\ [](\A j \in JobIds :
             Len(jobs[j].preExtractedText) > 0 =>
                 /\ jobs[j].pc \notin {"download", "single_call", "docx_call",
                                       "batch_heartbeat", "batch_call"}
                 /\ jobs[j].usage.aiCalls = 0)
    /\ [](\A k \in 1..Len(ai_usage_logs) : ai_usage_logs[k].source_id # "d1")
    /\ [][\A j \in JobIds :
             (Len(jobs[j].preExtractedText) > 0 /\ jobs[j].pc = "ready"
                  /\ jobs'[j].pc = "done") =>
                 /\ sources'[jobs[j].sourceId].status = "ready"
                 /\ sources'[jobs[j].sourceId].page_count
                        \in pageCountOf(jobs[j].preExtractedText)]_vars

\* the document was reset to pending by reprocessSource and no job has
\* written to its row since: only the reset writes pending on a row that has
\* a processing_started_at, so updated_at is the time of the reset
resetAt(d) ==
    IF /\ sources[d].status = "pending"
       /\ sources[d].processing_started_at # NullInt
       /\ \A j \in jobsOf(d) : jobs[j].pc \in {"done", "select", "update"}
    THEN sources[d].updated_at ELSE NullInt

\* C35: the sweeper does not select (and so does not force to error) a
\* document that reprocessSource reset to pending before 10 minutes have
\* passed since the reset: the processing_started_at of the attempt before
\* does not count for the new attempt.
C35_ResetRestartsClock ==
    [][\A s \in SweepIds, d \in DOMAIN sources :
          (/\ sweeps[s].pc = "idle"
           /\ \E doc \in sweeps'[s].stuckDocs : doc.id = d
           /\ resetAt(d) # NullInt) =>
              now - resetAt(d) >= STUCK_THRESHOLD_MINUTES * 60 * 1000]_vars

\* the job works on a PDF above the ceiling and was given no text
serverSideTooLarge(j) ==
    /\ jobs[j].pc \notin {"idle", "select", "update", "done"}
    /\ jobs[j].file_type = PDF
    /\ jobs[j].file_size > TWO_MB
    /\ Len(jobs[j].preExtractedText) = 0

\* the reprocess request carries no pre-extracted text, its job goes to the
\* download, a job on a PDF above 2 MB never gets past the download, and it
\* ends with status error and one of messages: what a step has to satisfy
reprocessEndsWith(messages) ==
    /\ \A d \in clicked \ clicked' :
          \E j \in JobIds :
              /\ jobs[j].pc = "idle" /\ jobs'[j].pc = "select"
              /\ jobs'[j].sourceId = d
              /\ jobs'[j].preExtractedText = NoText
    /\ \A j \in JobIds :
          (jobs[j].pc = "start" /\ jobs'[j] # jobs[j]
               /\ Len(jobs[j].preExtractedText) = 0) => jobs'[j].pc = "download"
    /\ \A j \in JobIds :
          serverSideTooLarge(j) =>
              /\ jobs[j].pc \in {"start", "download", "catch"}
              /\ (jobs[j].pc = "download" /\ jobs'[j] # jobs[j]) =>
                     /\ jobs'[j].pc = "catch"
                     /\ jobs'[j].errorMessage \in messages
              /\ (jobs[j].pc = "catch" /\ jobs'[j] # jobs[j]) =>
                     /\ jobs'[j].pc = "done" /\ jobs'[j].outcome = "error"
                     /\ sources'[jobs[j].sourceId].status = "error"
                     /\ sources'[jobs[j].sourceId].error_message \in messages

\* C36 as claimed: a reprocess request never carries pre-extracted text, so
\* the reprocessed PDF takes the server-side path; for a PDF above 2 MB every
\* reprocess ends in error with the too-large message, never in ready.
C36_ReprocessTooLarge ==
    [][reprocessEndsWith({tooLargeMessage(HUGE_PDF)})]_vars

\* C36 amended: a reprocess request never carries pre-extracted text, so the
\* reprocessed PDF takes the server-side path; for a PDF above 2 MB every
\* reprocess ends in error, never in ready: with the too-large message when
\* the file was downloaded, with the download message when it was not.
C36_ReprocessNeverReady ==
    [][reprocessEndsWith({tooLargeMessage(HUGE_PDF), downloadFailedMessage})]_vars

\* the document was reprocessed and the second job ended it with the
\* too-large message
C36_Witness ==
    /\ Cardinality(jobsOf("d1")) = 2
    /\ \A j \in jobsOf("d1") : jobs[j].pc = "done"
    /\ jobs[2].outcome = "error"
    /\ sources["d1"].status = "error"
    /\ sources["d1"].error_message = tooLargeMessage(HUGE_PDF)

\* the largest estimated page count of a PDF the server extracts
MAX_PAGES == ceilDiv(TWO_MB, BYTES_PER_PAGE)

\* what a step of a job has to satisfy: the step that ends the job is the
\* write of ready or the write of error, no other step of the job writes the
\* status, a finished job does nothing more, and the AI calls are counted by
\* the batch loop
oneTerminalWrite(j) ==
    LET d == jobs[j].sourceId
    IN /\ (jobs[j].pc \in BackgroundPcs /\ jobs'[j] # jobs[j]) =>
              IF jobs'[j].pc = "done"
              THEN \/ /\ jobs[j].pc = "ready"
                      /\ jobs'[j].outcome = "ready"
                      /\ sources[d].status # "ready" /\ sources'[d].status = "ready"
                   \/ /\ jobs[j].pc = "catch"
                      /\ jobs'[j].outcome = "error"
                      /\ sources[d].status # "error" /\ sources'[d].status = "error"
              ELSE /\ jobs'[j].pc \in BackgroundPcs
                   /\ sources'[d].status = sources[d].status
       /\ jobs[j].pc = "done" => jobs'[j] = jobs[j]
       /\ (jobs[j].pc \in {"single_call", "docx_call"} /\ jobs'[j] # jobs[j]) =>
              jobs'[j].pc \in {"delete", "catch"}
       /\ (jobs[j].pc = "batch_call" /\ jobs'[j] # jobs[j]) =>
              /\ jobs'[j].batch = jobs[j].batch + 1
              /\ jobs'[j].batch <= totalBatches(jobs[j].estimatedPages)
              /\ jobs[j].estimatedPages <= MAX_PAGES
              /\ jobs'[j].pc = "delete" <=>
                     jobs'[j].batch = totalBatches(jobs[j].estimatedPages)

\* C37: every background job terminates with exactly one terminal status
\* write: a call makes at most 3 fetch attempts, a job at most ceil(P / 5)
\* calls with P <= 42, and the job then writes ready or error once and is
\* over, never error after ready nor ready after error.
C37_JobTerminates ==
    /\ \A r \in FetchOutcomes : r.attempts <= MAX_RETRIES
    /\ MAX_PAGES = 42
    /\ [][\A j \in JobIds : oneTerminalWrite(j)]_vars
    /\ \A j \in JobIds : [](jobs[j].pc \in BackgroundPcs => <>(jobs[j].pc = "done"))

\* the job of the 42-page PDF made its 9 calls and wrote ready
C37_Witness ==
    /\ jobs[1].pc = "done"
    /\ jobs[1].outcome = "ready"
    /\ sources["d1"].file_size = MAX_PDF
    /\ sources["d1"].status = "ready"
    /\ Len(ai_usage_logs) = 1
    /\ ai_usage_logs[1].ai_calls = totalBatches(MAX_PAGES)

====
